---- MODULE Spec2Model ----
(***************************************************************************)
(* Model of the EvalManus orchestration core:                              *)
(*   - WorkflowDefinition.validate_dependencies / get_execution_order      *)
(*     (src/app/workflow/base.py)                                          *)
(*   - ManusWorkflowExecutor (src/app/workflow/executor.py)                *)
(*   - BaseAgent.run / state_context (src/app/agent/base.py)               *)
(*   - ToolCallAgent think / act / run (src/app/agent/toolcall.py)         *)
(* The specifications share the variables:                                 *)
(*   SpecOrder    : get_execution_order applied to every small definition  *)
(*   SpecExec     : one executor constructed and executed on a definition  *)
(*   SpecControl  : SpecExec with pause(), resume(), cancel() interleaved  *)
(*   SpecAgent    : run() calls on one execution unit                      *)
(*   SpecToolCall : run() calls on one tool-calling unit                   *)
(*   SpecTimeout  : execute() on definitions whose nodes have timeouts     *)
(*   SpecStep     : one step() of a tool-calling unit, any backend answer  *)
(*   SpecStuck    : is_stuck() after each message appended to a memory     *)
(*   SpecCollection : a ToolCollection constructed and extended            *)
(*   SpecPlanning : PlanningTool commands (src/app/tool/planning.py)       *)
(*   SpecFlow     : PlanningFlow.execute (src/app/flow/planning.py)        *)
(***************************************************************************)
EXTENDS Integers, Sequences, FiniteSets, TLC

VARIABLES
    definition,        \* WorkflowDefinition: [deps, cond, group, retry, timeout, agent_type]
    wpc,               \* control location of the executor / of the order call
    ctx_state,         \* WorkflowExecutionContext.state
    current_node,      \* WorkflowExecutionContext.current_node
    node_results,      \* WorkflowExecutionContext.node_results (id -> result)
    error_info,        \* WorkflowExecutionContext.error_info
    end_time,          \* WorkflowExecutionContext.end_time is stamped
    execution_levels,  \* local execution_levels of execute()
    level_idx,         \* index of the level whose tasks are in flight
    ntask,             \* per node: the coroutine _execute_single_node(node)
    gtask,             \* per parallel group: the coroutine _execute_parallel_group
    state,             \* BaseAgent.state
    current_step,      \* BaseAgent.current_step
    max_steps,         \* BaseAgent.max_steps
    memory,            \* BaseAgent.memory.messages
    next_step_prompt,  \* BaseAgent.next_step_prompt (sequence of prompt parts)
    apc,               \* control location of the run() in progress
    previous_state,    \* local previous_state of state_context
    results,           \* local results of run()
    run_log,           \* observation of the current run(): what the caller saw
    stuck,             \* what the latest is_stuck() returned
    tool_choices,      \* ToolCallAgent.tool_choices
    tool_calls,        \* ToolCallAgent.tool_calls
    call_idx,          \* act(): position of the command being executed
    step_out,          \* act(): local results (observations of the step)
    cleanups,          \* per registered tool: calls of its cleanup hook
    step_log,          \* observation of the latest step(): the backend's answer,
                       \* what think() returned, what the step returned
    ctl_log,           \* observation of the last pause()/resume()/cancel() call
    exec_log,          \* observation of the current execute(): halts, resumes, reruns
    tools,             \* ToolCollection.tools (tuple of tool objects)
    tool_map,          \* ToolCollection.tool_map (name -> tool object)
    plans,             \* PlanningTool.plans (plan_id -> plan)
    current_plan_id,   \* PlanningTool._current_plan_id
    plan_log,          \* observation: the last PlanningTool command and its outcome
    fpc,               \* control location of PlanningFlow.execute
    current_step_index \* PlanningFlow.current_step_index

wvars == <<definition, wpc, ctx_state, current_node, node_results, error_info,
           end_time, execution_levels, level_idx, ntask, gtask>>
tvars == <<tool_choices, tool_calls, call_idx, step_out, cleanups, step_log>>
cvars == <<ctl_log, exec_log>>
uvars == <<state, current_step, max_steps, memory, next_step_prompt, apc,
           previous_state, results, run_log, stuck>>
avars == <<uvars, tvars, cvars>>
pvars == <<plans, current_plan_id, plan_log>>
fvars == <<fpc, current_step_index>>
xvars == <<tools, tool_map, pvars, fvars>>
vars == <<wvars, avars, xvars>>

-----------------------------------------------------------------------------
(* Bounds *)

MaxRetry == 2      \* largest retry_count drawn for a node
MaxSteps == 3      \* largest max_steps drawn for a unit
MaxRuns == 2       \* accepted run() calls followed on one unit
MaxRejects == 1    \* rejected run() calls followed on one unit

-----------------------------------------------------------------------------
(* Workflow graph model: src/app/workflow/base.py *)

NodeList == <<"A", "B", "C">>
Nodes == {NodeList[i] : i \in 1..Len(NodeList)}
DepIds == Nodes \cup {"X"}           \* "X" names no node of the definition
None == "None"
Groups == {"g"}

\* faulty variant: every definition is accepted
ValidateAccepts(d) == TRUE

\* node_ids = {node.id for node in self.nodes}; every dep must be in it
validate_dependencies(d) ==
    \A n \in Nodes : \A dep \in d.deps[n] : dep \in Nodes

\* in_degree[node.id] += 1 for each dependency
InDegree0(d) == [n \in Nodes |-> Cardinality(d.deps[n])]

\* graph[dep].append(node.id), in node-list order
Graph(d, dep) == SelectSeq(NodeList, LAMBDA n : dep \in d.deps[n])

\* faulty variant: a neighbour is appended on every decrement
NeighbourReadyAlways(deg) == TRUE
\* if in_degree[neighbor] == 0: next_level.append(neighbor)
NeighbourReady(deg) == deg = 0

\* inner loop: for neighbor in graph[node_id]
RECURSIVE ProcessNeighbours(_, _, _)
ProcessNeighbours(nbrs, indeg, next) ==
    IF nbrs = <<>> THEN [indeg |-> indeg, next |-> next]
    ELSE LET nb == Head(nbrs)
             deg == indeg[nb] - 1
         IN ProcessNeighbours(Tail(nbrs),
                              [indeg EXCEPT ![nb] = deg],
                              IF NeighbourReady(deg) THEN Append(next, nb) ELSE next)

\* outer loop: for node_id in current_level
RECURSIVE ProcessLevel(_, _, _, _)
ProcessLevel(d, level, indeg, next) ==
    IF level = <<>> THEN [indeg |-> indeg, next |-> next]
    ELSE LET r == ProcessNeighbours(Graph(d, Head(level)), indeg, next)
         IN ProcessLevel(d, Tail(level), r.indeg, r.next)

\* while current_level: levels.append(current_level[:]) ...
RECURSIVE LevelLoop(_, _, _)
LevelLoop(d, current_level, indeg) ==
    IF current_level = <<>> THEN <<>>
    ELSE LET r == ProcessLevel(d, current_level, indeg, <<>>)
         IN <<current_level>> \o LevelLoop(d, r.next, r.indeg)

get_execution_order(d) ==
    LevelLoop(d, SelectSeq(NodeList, LAMBDA n : InDegree0(d)[n] = 0), InDegree0(d))

-----------------------------------------------------------------------------
(* Workflow scheduler: src/app/workflow/executor.py *)

\* no entry under this id in node_results
Absent == [kind |-> "absent", node |-> None, attempt |-> 0]
NoCond == [kind |-> "none", ref |-> None]
CondFalse == [kind |-> "false", ref |-> None]       \* e.g. "1 == 2"
CondRef(d) == [kind |-> "ref", ref |-> d]           \* e.g. "results['d'] != None"

Skipped == [kind |-> "skipped", node |-> None, attempt |-> 0]
Result(n, a) == [kind |-> "result", node |-> n, attempt |-> a]

\* context.global_data, as a caller has filled it: one datum under the key "k"
GlobalValue == [kind |-> "global", node |-> None, attempt |-> 0]
GlobalKeys == {"k"}

\* f"from_{dep_id}"
FromKey(dep) == CASE dep = "A" -> "from_A" [] dep = "B" -> "from_B" [] dep = "C" -> "from_C"
InputKeys == {FromKey(n) : n \in Nodes} \cup GlobalKeys

\* an input_data without any key
NoInput == [key \in InputKeys |-> Absent]

\* _prepare_input_data(node): the dependencies' entries of node_results under
\* from_<id>, then update() with global_data
prepare_input_data(n, res) ==
    [key \in InputKeys |->
        IF key \in GlobalKeys THEN GlobalValue
        ELSE IF \E dep \in definition.deps[n] \cap Nodes :
                    FromKey(dep) = key /\ res[dep] # Absent
             THEN res[CHOOSE dep \in definition.deps[n] \cap Nodes : FromKey(dep) = key]
             ELSE Absent]

NoTask == [st |-> "none", attempts |-> 0, units |-> 0, value |-> Absent,
           input |-> NoInput, ended |-> None, ran |-> <<>>]

\* eval(node.condition, ..., {"results": node_results, ...}); an exception gives False
check_condition(c, res) ==
    CASE c.kind = "none" -> TRUE
      [] c.kind = "false" -> FALSE
      [] c.kind = "ref" -> res[c.ref] # Absent      \* KeyError -> except -> False

\* faulty variant: one retry too few (range(node.retry_count - 1))
RetryAfterFailureShort(r, a) == IF a = 1 THEN r > 1 ELSE (a - 2) # (r - 2)
\* except-branch of _execute_single_node after attempt number a failed:
\* TRUE = run another attempt, FALSE = raise
RetryAfterFailure(r, a) == IF a = 1 THEN r > 0 ELSE (a - 2) # (r - 1)

\* asyncio.gather(*tasks, return_exceptions=True): exceptions come back as values
GatherRaises(raisedTasks) == FALSE

LevelNodes(k) == {execution_levels[k][i] : i \in 1..Len(execution_levels[k])}
Individual(lvl) == {n \in lvl : definition.group[n] = None}
Members(lvl, g) == {n \in lvl : definition.group[n] = g}
\* faulty variant: the gather does not wait for its tasks
SettledWithoutWaiting(n) == TRUE
\* the task of node n is done: gather can return it
Settled(n) == ntask[n].st \in {"returned", "raised"}

\* _execute_level up to its await: one task per group and per individual node
StartLevel(lvl) ==
    /\ ntask' = [n \in Nodes |->
                   IF n \in Individual(lvl)
                   THEN [ntask[n] EXCEPT !.st = "scheduled"] ELSE ntask[n]]
    /\ gtask' = [g \in Groups |->
                   IF Members(lvl, g) # {} THEN "scheduled" ELSE gtask[g]]

\* faulty variant: the first failing member ends the group's gather
GatheredFailFast(run) ==
    \/ \E n \in run : ntask[n].st = "raised"
    \/ \A n \in run : Settled(n)
\* asyncio.gather(*members, return_exceptions=True) of a group returns
Gathered(run) == \A n \in run : Settled(n)

\* faulty variant: only a cancellation ends the loop over the levels
InterruptedByCancelOnly(st) == st = "CANCELLED"
\* execute(): the test after each level that breaks out of the loop
Interrupted(st) == st \in {"PAUSED", "CANCELLED"}

\* faulty variant: the state is left as the loop found it
FinalStateKeepsRunning(st) == st
\* execute(): if self.context.state == RUNNING: self.context.state = COMPLETED
FinalState(st) == IF st = "RUNNING" THEN "COMPLETED" ELSE st

\* tail of execute(): COMPLETED if still RUNNING, finally: end_time, return
Finish ==
    /\ ctx_state' = FinalState(ctx_state)
    /\ end_time' = TRUE
    /\ wpc' = "returned"

\* ManusWorkflowExecutor.__init__: context created, then validate_dependencies
Construct ==
    /\ wpc = "new"
    /\ wpc' = IF validate_dependencies(definition) THEN "constructed" ELSE "invalid"
    /\ UNCHANGED <<avars, definition, ctx_state, current_node, node_results, error_info,
                   end_time, execution_levels, level_idx, ntask, gtask>>
    /\ UNCHANGED xvars

\* execute() up to the first await
Execute ==
    /\ wpc = "constructed"
    /\ LET levels == get_execution_order(definition)
       IN /\ execution_levels' = levels
          /\ IF levels = <<>>
             THEN /\ ctx_state' = "COMPLETED"
                  /\ end_time' = TRUE
                  /\ wpc' = "returned"
                  /\ UNCHANGED <<level_idx, ntask, gtask>>
             ELSE /\ ctx_state' = "RUNNING"
                  /\ end_time' = FALSE
                  /\ wpc' = "gather"
                  /\ level_idx' = 1
                  /\ StartLevel({levels[1][i] : i \in 1..Len(levels[1])})
    /\ UNCHANGED <<avars, definition, current_node, node_results, error_info>>
    /\ UNCHANGED xvars

\* _execute_parallel_group up to its gather
GroupStart(g) ==
    /\ wpc = "gather"
    /\ gtask[g] = "scheduled"
    /\ LET mem == Members(LevelNodes(level_idx), g)
           run == {n \in mem : check_condition(definition.cond[n], node_results)}
       IN /\ ntask' = [n \in Nodes |->
                         IF n \in run THEN [ntask[n] EXCEPT !.st = "scheduled"]
                         ELSE IF n \in mem THEN [ntask[n] EXCEPT !.st = "filtered"]
                         ELSE ntask[n]]
          /\ gtask' = [gtask EXCEPT ![g] = IF run = {} THEN "done" ELSE "waiting"]
    /\ UNCHANGED <<avars, definition, wpc, ctx_state, current_node, node_results, error_info,
                   end_time, execution_levels, level_idx>>
    /\ UNCHANGED xvars

\* agent_registry of the executor class in use, and the agent types of nodes
AgentRegistry == {"manus"}
AgentTypes == {"manus", "unregistered"}

\* faulty variant: a retry runs the unit of the attempt before it
CreateAgentReusesUnit(agent_type, units) ==
    IF agent_type \notin AgentRegistry THEN 0
    ELSE IF units = 0 THEN 1 ELSE units

\* _create_agent: the number of units created for the node so far, the new one
\* included (it identifies the new unit), or 0 when it raises ValueError
create_agent(agent_type, units) ==
    IF agent_type \notin AgentRegistry THEN 0 ELSE units + 1

\* _execute_single_node up to the await of the first attempt; when _create_agent
\* raises, every attempt raises before any await and the node raises at once
NodeStart(n) ==
    /\ wpc = "gather"
    /\ ntask[n].st = "scheduled"
    /\ current_node' = n
    /\ LET unit == create_agent(definition.agent_type[n], ntask[n].units)
       IN IF ~check_condition(definition.cond[n], node_results)
          THEN ntask' = [ntask EXCEPT ![n].st = "returned", ![n].value = Skipped]
          ELSE IF unit = 0
               THEN ntask' = [ntask EXCEPT ![n].st = "raised",
                                           ![n].attempts = definition.retry[n] + 1,
                                           ![n].ended = "fault"]
               ELSE ntask' = [ntask EXCEPT ![n].st = "running", ![n].attempts = 1,
                                           ![n].units = unit,
                                           ![n].ran = Append(@, unit),
                                           ![n].input =
                                               prepare_input_data(n, node_results)]
    /\ UNCHANGED <<avars, definition, wpc, ctx_state, node_results, error_info, end_time,
                   execution_levels, level_idx, gtask>>
    /\ UNCHANGED xvars

\* what agent.run_in_workflow can do: return, raise, or (told apart only when
\* the node has a timeout) still be running when the timeout expires
RunBehaviours == {"returned", "fault", "late"}
RunOutcomes(timeout) ==
    IF timeout # 0 THEN RunBehaviours ELSE RunBehaviours \ {"late"}

\* faulty variant: the unit is awaited without a timeout
ExecuteWithoutTimeout(timeout, run) == IF run = "late" THEN "returned" ELSE run

\* _execute_with_timeout: asyncio.wait_for raises TimeoutError for a late run;
\* "if timeout:" is false for None and for 0
execute_with_timeout(timeout, run) ==
    IF timeout # 0 /\ run = "late" THEN "timeout" ELSE run

\* an attempt (agent.run_in_workflow under the timeout) ends
AttemptEnd(n, run) ==
    /\ wpc = "gather"
    /\ ntask[n].st = "running"
    /\ run \in RunOutcomes(definition.timeout[n])
    /\ LET t == ntask[n]
           out == execute_with_timeout(definition.timeout[n], run)
           unit == create_agent(definition.agent_type[n], t.units)
       IN IF out = "returned"
          THEN ntask' = [ntask EXCEPT ![n].st = "returned", ![n].ended = run,
                                      ![n].value = Result(n, t.attempts)]
          ELSE IF RetryAfterFailure(definition.retry[n], t.attempts)
               THEN ntask' = [ntask EXCEPT ![n].attempts = @ + 1,
                                           ![n].units = unit,
                                           ![n].ran = Append(@, unit),
                                           ![n].ended = run,
                                           ![n].input =
                                               prepare_input_data(n, node_results)]
               ELSE ntask' = [ntask EXCEPT ![n].st = "raised", ![n].ended = run]
    /\ UNCHANGED <<avars, definition, wpc, ctx_state, current_node, node_results, error_info,
                   end_time, execution_levels, level_idx, gtask>>
    /\ UNCHANGED xvars

\* the list tasks of _execute_parallel_group: the ids of the members whose
\* condition held, in the order of the level
GroupTasks(g) ==
    LET Awaited(n) == definition.group[n] = g /\ ntask[n].st # "filtered"
    IN SelectSeq(execution_levels[level_idx], Awaited)

\* faulty variant: the results come back in the opposite order
GatherReversed(tasks) == [i \in 1..Len(tasks) |-> ntask[tasks[Len(tasks) + 1 - i]]]

\* asyncio.gather(*[task for _, task in tasks], return_exceptions=True): the
\* outcomes in the order of the awaitables, whatever order they finished in
gather(tasks) == [i \in 1..Len(tasks) |-> ntask[tasks[i]]]

\* _execute_parallel_group after its gather: zip(tasks, results), the results
\* that are no exception are stored under the id of their position
GroupJoin(g) ==
    /\ wpc = "gather"
    /\ gtask[g] = "waiting"
    /\ LET tasks == GroupTasks(g)
           run == {tasks[i] : i \in 1..Len(tasks)}
           outcomes == gather(tasks)
           Stored(n) == {i \in 1..Len(tasks) :
                            tasks[i] = n /\ outcomes[i].st = "returned"}
       IN /\ Gathered(run)
          /\ node_results' = [n \in Nodes |->
                                IF Stored(n) # {}
                                THEN outcomes[CHOOSE i \in Stored(n) : TRUE].value
                                ELSE node_results[n]]
    /\ gtask' = [gtask EXCEPT ![g] = "done"]
    /\ UNCHANGED <<avars, definition, wpc, ctx_state, current_node, error_info, end_time,
                   execution_levels, level_idx, ntask>>
    /\ UNCHANGED xvars

\* _execute_level after its gather, and execute() up to the next await or its end
LevelJoin ==
    /\ wpc = "gather"
    /\ LET lvl == LevelNodes(level_idx)
       IN /\ \A n \in Individual(lvl) : Settled(n)
          /\ \A g \in Groups : Members(lvl, g) # {} => gtask[g] = "done"
          /\ IF GatherRaises({n \in lvl : ntask[n].st = "raised"})
             THEN /\ ctx_state' = "FAILED"
                  /\ error_info' = [set |-> TRUE, node |-> current_node]
                  /\ end_time' = TRUE
                  /\ wpc' = "raised"
                  /\ UNCHANGED <<level_idx, ntask, gtask>>
             ELSE /\ UNCHANGED error_info
                  /\ IF Interrupted(ctx_state)
                        \/ level_idx = Len(execution_levels)
                     THEN Finish /\ UNCHANGED <<level_idx, ntask, gtask>>
                     ELSE /\ level_idx' = level_idx + 1
                          /\ StartLevel(LevelNodes(level_idx + 1))
                          /\ UNCHANGED <<ctx_state, end_time, wpc>>
    /\ UNCHANGED <<avars, definition, current_node, node_results, execution_levels>>
    /\ UNCHANGED xvars

-----------------------------------------------------------------------------
(* Lifecycle controls: src/app/workflow/executor.py *)

MaxReruns == 1

\* faulty variant: pause() also succeeds from PENDING
PauseAllowedBeforeStart(st) == st \in {"RUNNING", "PENDING"}
PauseAllowed(st) == st = "RUNNING"
\* faulty variant: resume() never succeeds
ResumeRefused(st) == FALSE
ResumeAllowed(st) == st = "PAUSED"
CancelAllowed(st) == st \in {"RUNNING", "PAUSED"}

\* an executor exists: the lifecycle methods can be called on it
Constructed == wpc \in {"constructed", "gather", "returned", "raised"}

\* a halt (pause or cancel) that takes effect while a level is being gathered
HaltLog(took) ==
    IF took /\ wpc = "gather"
    THEN [exec_log EXCEPT !.halted = level_idx, !.resumed = FALSE]
    ELSE exec_log

pause ==
    /\ Constructed
    /\ ctl_log' = [op |-> "pause", ret |-> PauseAllowed(ctx_state), before |-> ctx_state]
    /\ ctx_state' = IF PauseAllowed(ctx_state) THEN "PAUSED" ELSE ctx_state
    /\ exec_log' = HaltLog(PauseAllowed(ctx_state))
    /\ UNCHANGED <<uvars, tvars, definition, wpc, current_node, node_results,
                   error_info, end_time, execution_levels, level_idx, ntask, gtask>>
    /\ UNCHANGED xvars

resume ==
    /\ Constructed
    /\ ctl_log' = [op |-> "resume", ret |-> ResumeAllowed(ctx_state), before |-> ctx_state]
    /\ ctx_state' = IF ResumeAllowed(ctx_state) THEN "RUNNING" ELSE ctx_state
    /\ exec_log' = IF ResumeAllowed(ctx_state)
                   THEN [exec_log EXCEPT !.resumed = TRUE] ELSE exec_log
    /\ UNCHANGED <<uvars, tvars, definition, wpc, current_node, node_results,
                   error_info, end_time, execution_levels, level_idx, ntask, gtask>>
    /\ UNCHANGED xvars

cancel ==
    /\ Constructed
    /\ ctl_log' = [op |-> "cancel", ret |-> CancelAllowed(ctx_state), before |-> ctx_state]
    /\ ctx_state' = IF CancelAllowed(ctx_state) THEN "CANCELLED" ELSE ctx_state
    /\ exec_log' = HaltLog(CancelAllowed(ctx_state))
    /\ UNCHANGED <<uvars, tvars, definition, wpc, current_node, node_results,
                   error_info, end_time, execution_levels, level_idx, ntask, gtask>>
    /\ UNCHANGED xvars

\* execute() called again on an executor whose execute() has returned or raised:
\* the same code runs, with new tasks for the nodes
ExecuteAgain ==
    /\ wpc \in {"returned", "raised"}
    /\ exec_log.reruns < MaxReruns
    /\ exec_log' = [reruns |-> exec_log.reruns + 1, halted |-> 0, resumed |-> FALSE]
    /\ LET levels == get_execution_order(definition)
           first == IF levels = <<>> THEN {}
                    ELSE {levels[1][i] : i \in 1..Len(levels[1])}
       IN /\ execution_levels' = levels
          /\ IF levels = <<>>
             THEN /\ ctx_state' = "COMPLETED"
                  /\ wpc' = "returned"
                  /\ UNCHANGED <<level_idx, ntask, gtask>>
             ELSE /\ ctx_state' = "RUNNING"
                  /\ wpc' = "gather"
                  /\ level_idx' = 1
                  /\ ntask' = [n \in Nodes |->
                                 IF n \in Individual(first)
                                 THEN [NoTask EXCEPT !.st = "scheduled"] ELSE NoTask]
                  /\ gtask' = [g \in Groups |->
                                 IF Members(first, g) # {} THEN "scheduled" ELSE "none"]
    /\ UNCHANGED <<uvars, tvars, ctl_log, definition, current_node, node_results,
                   error_info, end_time>>
    /\ UNCHANGED xvars

-----------------------------------------------------------------------------
(* Execution unit: src/app/agent/base.py *)

AgentStates == {"IDLE", "RUNNING", "FINISHED", "ERROR"}
Requests == {None, "req"}            \* run(request): no request, or a text
StepContents == {"x"}                \* what a step may append as message content
StepKinds == {"ok", "finish", "raise"}

Message(role, content) == [role |-> role, content |-> content]
StepEntry(k) == [kind |-> "step", n |-> k]             \* f"Step {k}: ..."
MaxStepsNotice == [kind |-> "terminated", n |-> 0]     \* "Terminated: Reached max steps"
StuckPrompt == "stuck"
DuplicateThreshold == 2

\* faulty variant: a finished unit is accepted like an idle one
RunAcceptsFinished(st) == st \notin {"IDLE", "FINISHED"}
\* faulty variant: only a running unit is rejected
RunRejectsWhenRunning(st) == st = "RUNNING"
\* if self.state != AgentState.IDLE: raise RuntimeError
RunRejects(st) == st # "IDLE"

\* faulty variant: the loop test leaves the counter out
LoopContinuesIgnoresCounter(cs, ms, st) == st # "FINISHED"
\* faulty variant: one step too many (<= in place of <)
LoopContinuesInclusive(cs, ms, st) == cs <= ms /\ st # "FINISHED"
\* while self.current_step < self.max_steps and self.state != AgentState.FINISHED
LoopContinues(cs, ms, st) == cs < ms /\ st # "FINISHED"

\* faulty variant: the state set inside the context is never restored
ContextExitRestoresNothing(st, prev) == st
\* faulty variant: ERROR is left in place as FINISHED is
ContextExitKeepsError(st, prev) == IF st \notin {"FINISHED", "ERROR"} THEN prev ELSE st
\* finally-branch of state_context
ContextExit(st, prev) == IF st # "FINISHED" THEN prev ELSE st

\* faulty variant: the directive replaces the prompt
HandleStuckReplacesPrompt(prompt) == <<StuckPrompt>>

\* self.next_step_prompt = f"{stuck_prompt}\n{self.next_step_prompt}"
handle_stuck_state(prompt) == <<StuckPrompt>> \o prompt
\* faulty variant: the latest message is counted among the duplicates
IsStuckCountsLatest(mem) ==
    IF Len(mem) < 2 THEN FALSE
    ELSE LET last == mem[Len(mem)]
         IN IF last.content = "" THEN FALSE
            ELSE Cardinality({i \in 1..Len(mem) :
                                 /\ mem[i].role = "assistant"
                                 /\ mem[i].content = last.content})
                 >= DuplicateThreshold

is_stuck(mem) ==
    IF Len(mem) < 2 THEN FALSE
    ELSE LET last == mem[Len(mem)]
         IN IF last.content = "" THEN FALSE
            ELSE Cardinality({i \in 1..(Len(mem) - 1) :
                                 /\ mem[i].role = "assistant"
                                 /\ mem[i].content = last.content})
                 >= DuplicateThreshold

\* what a step() of a subclass does to the unit: kind "ok" appends an assistant
\* message, "finish" is a step whose tool (terminate) sets FINISHED
StepMemory(mem, kind, c) ==
    CASE kind = "ok" -> Append(mem, Message("assistant", c))
      [] kind = "finish" -> Append(mem, Message("tool", c))
      [] kind = "raise" -> mem

\* run() from the loop test on, with the unit's fields st, cs and the summary res:
\* either the next step is started, or the loop is left, the max-steps branch and
\* the exit of state_context run, and run() returns
LoopOrExit(st, cs, res) ==
    IF LoopContinues(cs, max_steps, st)
    THEN /\ current_step' = cs + 1
         /\ state' = st
         /\ results' = res
         /\ apc' = "step"
    ELSE /\ current_step' = IF cs >= max_steps THEN 0 ELSE cs
         /\ state' = ContextExit(IF cs >= max_steps THEN "IDLE" ELSE st, previous_state')
         /\ results' = IF cs >= max_steps THEN Append(res, MaxStepsNotice) ELSE res
         /\ apc' = "returned"

\* a call of run(request)
RunCall(request) ==
    /\ apc # "step" \/ RunRejects(state)
    /\ IF RunRejects(state)
       THEN /\ run_log.rejects < MaxRejects
            /\ run_log' = [run_log EXCEPT !.rejects = @ + 1]
            /\ UNCHANGED <<state, current_step, memory, apc, previous_state, results>>
       ELSE /\ run_log.runs < MaxRuns
            /\ run_log' = [run_log EXCEPT !.runs = @ + 1, !.steps = 0,
                                          !.start_step = current_step,
                                          !.finished = FALSE, !.fault = FALSE]
            /\ memory' = IF request # None
                         THEN Append(memory, Message("user", request)) ELSE memory
            /\ previous_state' = state
            /\ LoopOrExit("RUNNING", current_step, <<>>)
    /\ UNCHANGED <<wvars, tvars, cvars, max_steps, next_step_prompt, stuck>>
    /\ UNCHANGED xvars

\* the awaited step() ends; then run() up to the next await or its end
StepEnd(kind, c) ==
    /\ apc = "step"
    /\ memory' = StepMemory(memory, kind, c)
    /\ UNCHANGED previous_state
    /\ IF kind = "raise"
       THEN \* except: state = ERROR; finally: restore unless FINISHED; re-raise
            /\ state' = ContextExit("ERROR", previous_state)
            /\ apc' = "raised"
            /\ run_log' = [run_log EXCEPT !.steps = @ + 1, !.fault = TRUE]
            /\ UNCHANGED <<current_step, results, next_step_prompt, stuck>>
       ELSE /\ stuck' = is_stuck(memory')
            /\ next_step_prompt' = IF stuck'
                                   THEN handle_stuck_state(next_step_prompt)
                                   ELSE next_step_prompt
            /\ run_log' = [run_log EXCEPT !.steps = @ + 1,
                                          !.finished = @ \/ kind = "finish"]
            /\ LoopOrExit(IF kind = "finish" THEN "FINISHED" ELSE state,
                          current_step,
                          Append(results, StepEntry(current_step)))
    /\ UNCHANGED <<wvars, tvars, cvars, max_steps>>
    /\ UNCHANGED xvars

-----------------------------------------------------------------------------
(* Tool-calling unit: src/app/agent/toolcall.py *)

\* available_tools.tool_map in insertion order; the hooked tools have an async
\* cleanup(), terminate has none
ToolOrder == <<"work", "browser", "terminate">>
RegisteredTools == {ToolOrder[i] : i \in 1..Len(ToolOrder)}
HookedTools == {"work", "browser"}
SpecialToolNames == {"terminate"}
ToolChoices == {"auto", "required", "none"}

MaxToolSteps == 2

\* the tool calls a backend response can carry: a registered tool with a JSON
\* payload, the same with a payload that is not JSON, a name that is not
\* registered, and the special tool
CallWork == [name |-> "work", arguments |-> "json"]
CallMalformed == [name |-> "work", arguments |-> "malformed"]
CallUnknown == [name |-> "does_not_exist", arguments |-> "json"]
CallTerminate == [name |-> "terminate", arguments |-> "json"]
CallKinds == {CallWork, CallMalformed, CallUnknown, CallTerminate}
CallLists ==
    {<<>>} \cup {<<k>> : k \in CallKinds}
           \cup {<<CallUnknown, CallWork>>, <<CallTerminate, CallWork>>,
                 <<CallWork, CallTerminate>>}

\* ToolCall objects of a response: the backend gives each call its own id
WithIds(calls) ==
    [i \in 1..Len(calls) |->
        [id |-> i, name |-> calls[i].name, arguments |-> calls[i].arguments]]

\* outcomes of llm.ask_tool: a response (None included), or an exception
AskOutcomes ==
    {[kind |-> "response", content |-> c, calls |-> WithIds(l)] :
         c \in {"", "x"}, l \in {<<>>}}
    \cup {[kind |-> "response", content |-> "", calls |-> WithIds(l)] :
         l \in CallLists \ {<<>>}}
    \cup {[kind |-> k, content |-> "", calls |-> <<>>] :
         k \in {"no_response", "value_error", "token_limit", "fault"}}

\* every answer of the backend for one step: free text with any of the call lists
StepAskOutcomes ==
    AskOutcomes
    \cup {[kind |-> "response", content |-> "x", calls |-> WithIds(l)] :
            l \in CallLists}

\* what the awaited tool does once execute_tool has reached it
ToolOutcomes == {"ok", "tool_error", "raise"}

ToolMessage(role, content, id, name, calls) ==
    [role |-> role, content |-> content, tool_call_id |-> id, name |-> name,
     tool_calls |-> calls]
PlainMessage(role, content) == ToolMessage(role, content, 0, None, <<>>)

\* think(): the messages after the call, given those before it
ThinkMessages(mem, mode, r) ==
    LET asked == IF next_step_prompt # <<>>
                 THEN Append(mem, PlainMessage("user", "prompt")) ELSE mem
    IN CASE r.kind \in {"value_error", "fault"} -> asked
         [] r.kind = "token_limit" ->
                Append(asked, PlainMessage("assistant", "token limit reached"))
         [] r.kind = "no_response" ->
                Append(asked, PlainMessage("assistant", "error while thinking"))
         [] r.kind = "response" /\ mode = "none" ->
                IF r.content # ""
                THEN Append(asked, PlainMessage("assistant", r.content))
                ELSE asked
         [] OTHER ->
                Append(asked, ToolMessage("assistant", r.content, 0, None, r.calls))

\* faulty variant: the tool-choice mode none is not told apart, a response with
\* tool calls always makes think() return true
ThinkReturnsByCalls(mode, r) ==
    CASE r.kind \in {"value_error", "fault"} -> "raise"
      [] r.kind \in {"token_limit", "no_response"} -> "false"
      [] r.calls # <<>> \/ mode = "required" -> "true"
      [] OTHER -> IF r.content # "" THEN "true" ELSE "false"
\* faulty variant: the token-limit signal is raised like any other failure
ThinkReturnsRaisesTokenLimit(mode, r) ==
    CASE r.kind \in {"value_error", "fault", "token_limit"} -> "raise"
      [] r.kind = "no_response" -> "false"
      [] mode = "none" -> IF r.content # "" THEN "true" ELSE "false"
      [] mode = "required" /\ r.calls = <<>> -> "true"
      [] OTHER -> IF r.calls # <<>> \/ r.content # "" THEN "true" ELSE "false"
\* think(): "raise", or the boolean it returns
ThinkReturns(mode, r) ==
    CASE r.kind \in {"value_error", "fault"} -> "raise"
      [] r.kind \in {"token_limit", "no_response"} -> "false"
      [] mode = "none" -> IF r.content # "" THEN "true" ELSE "false"
      [] mode = "required" /\ r.calls = <<>> -> "true"
      [] mode = "auto" /\ r.calls = <<>> ->
             IF r.content # "" THEN "true" ELSE "false"
      [] OTHER -> IF r.calls # <<>> THEN "true" ELSE "false"

\* step() of the think/act unit: act() is called when think() returned true,
\* otherwise the step returns at once
ShouldAct(ret) == ret = "true"
ThinkingComplete == "thinking complete"

\* faulty variant: an empty content is returned as it is
ActReturnsContent(mem) == mem[Len(mem)].content

\* act() without tool calls: self.messages[-1].content or the placeholder
Placeholder == "no content or command"
ActWithoutCalls(mem) ==
    IF mem[Len(mem)].content # "" THEN mem[Len(mem)].content ELSE Placeholder

\* faulty variant: only the last observation is returned
JoinKeepsLast(obs) == IF obs = <<>> THEN obs ELSE <<obs[Len(obs)]>>
\* "\n\n".join(results)
RECURSIVE Join(_)
Join(obs) ==
    IF Len(obs) <= 1 THEN obs
    ELSE <<Head(obs), "\n\n">> \o Join(Tail(obs))

NoStep == [ask |-> None, content |-> "", think |-> None, ret |-> <<>>]

\* execute_tool(): the observation for one command; out is what the tool does
\* when it is reached
ExecuteToolCatchesNothing(command, out) ==
    CASE command.name \notin RegisteredTools -> "raise"
      [] command.arguments = "malformed" -> "raise"
      [] out = "raise" -> "raise"
      [] out = "tool_error" -> "observed error result"
      [] OTHER -> "observed result"

execute_tool(command, out) ==
    CASE command.name \notin RegisteredTools -> "error: unknown tool"
      [] command.arguments = "malformed" -> "error: invalid JSON arguments"
      [] out = "raise" -> "error: tool raised"
      [] out = "tool_error" -> "observed error result"
      [] OTHER -> "observed result"
ErrorObservations ==
    {"error: unknown tool", "error: invalid JSON arguments", "error: tool raised",
     "observed error result"}

\* faulty variant: no tool is special
SpecialToolIgnored(command, out) == FALSE

\* whether execute_tool() reaches _handle_special_tool and it sets FINISHED
SpecialToolRuns(command, out) ==
    /\ command.name \in RegisteredTools
    /\ command.arguments # "malformed"
    /\ out # "raise"
    /\ command.name \in SpecialToolNames

\* faulty variant: the loop over the commands ends once the state is FINISHED
ActStopsWhenFinished(idx, calls, st) == idx < Len(calls) /\ st # "FINISHED"

\* act(): "for command in self.tool_calls" goes on to the next command whatever
\* the state of the unit is
ActContinues(idx, calls, st) == idx < Len(calls)

\* what the commands of a step can do: a tool that is not reached does nothing
ReachedOutcomes(command) ==
    IF command.name \in RegisteredTools /\ command.arguments # "malformed"
    THEN ToolOutcomes ELSE {"ok"}

\* cleanup(): the hooks invoked, in the order of tool_map, when the hooks in
\* raising raise
RECURSIVE CleanupStopsAtRaise(_, _, _)
CleanupStopsAtRaise(i, counts, raising) ==
    IF i > Len(ToolOrder) THEN counts
    ELSE LET t == ToolOrder[i]
         IN IF t \notin HookedTools
            THEN CleanupStopsAtRaise(i + 1, counts, raising)
            ELSE IF t \in raising
                 THEN [counts EXCEPT ![t] = @ + 1]
                 ELSE CleanupStopsAtRaise(i + 1, [counts EXCEPT ![t] = @ + 1],
                                          raising)

RECURSIVE cleanup(_, _, _)
cleanup(i, counts, raising) ==
    IF i > Len(ToolOrder) THEN counts
    ELSE LET t == ToolOrder[i]
         IN IF t \notin HookedTools
            THEN cleanup(i + 1, counts, raising)
            ELSE cleanup(i + 1, [counts EXCEPT ![t] = @ + 1], raising)

ThinkCount(mem) ==
    Cardinality({i \in 1..Len(mem) : mem[i].role = "user" /\ mem[i].content = "prompt"})

\* act() called on its own, as a step() of a subclass may do, on a unit that has
\* no tool calls: it raises ValueError in the mode required and IndexError on
\* an empty memory, otherwise it returns and leaves the memory alone
ActAlone ==
    /\ apc = "step"
    /\ tool_calls = <<>>
    /\ IF tool_choices = "required" \/ memory = <<>>
       THEN /\ apc' = "act_raised"
            /\ step_log' = [ask |-> "direct", content |-> "", think |-> None,
                            ret |-> <<>>]
       ELSE /\ apc' = "acted"
            /\ step_log' = [ask |-> "direct", content |-> "", think |-> None,
                            ret |-> <<ActWithoutCalls(memory)>>]
    /\ UNCHANGED <<wvars, cvars, state, current_step, max_steps, memory,
                   next_step_prompt, previous_state, results, run_log, stuck,
                   tool_choices, tool_calls, call_idx, step_out, cleanups>>
    /\ UNCHANGED xvars

\* ToolCallAgent.run(), finally-branch: cleanup() is awaited; any of the hooks
\* may raise
RunFinally ==
    \E raising \in SUBSET HookedTools : cleanups' = cleanup(1, cleanups, raising)

\* ToolCallAgent.run(): the finally-branch runs when super().run() is left
\* (returned or raised)
RunExit ==
    IF apc' \in {"returned", "raised"} THEN RunFinally ELSE UNCHANGED cleanups

\* a call of ToolCallAgent.run(request)
ToolRunCall(request) ==
    /\ apc \notin {"step", "act"} \/ RunRejects(state)
    /\ IF RunRejects(state)
       THEN /\ run_log.rejects < MaxRejects
            /\ run_log' = [run_log EXCEPT !.rejects = @ + 1]
            /\ RunFinally
            /\ UNCHANGED <<state, current_step, memory, apc, previous_state, results>>
       ELSE /\ run_log.runs < MaxRuns
            /\ run_log' = [run_log EXCEPT !.runs = @ + 1, !.steps = 0,
                                          !.start_step = current_step,
                                          !.finished = FALSE, !.fault = FALSE]
            /\ memory' = IF request # None
                         THEN Append(memory, PlainMessage("user", request))
                         ELSE memory
            /\ previous_state' = state
            /\ LoopOrExit("RUNNING", current_step, <<>>)
            /\ RunExit
    /\ UNCHANGED <<wvars, cvars, max_steps, next_step_prompt, stuck, tool_choices,
                   tool_calls, call_idx, step_out, step_log>>
    /\ UNCHANGED xvars

\* step() raises: except-branch and exit of state_context, run() raises
StepRaises ==
    /\ state' = ContextExit("ERROR", previous_state)
    /\ apc' = "raised"
    /\ run_log' = [run_log EXCEPT !.steps = @ + 1, !.fault = TRUE]
    /\ UNCHANGED <<current_step, results, next_step_prompt, stuck>>

\* step() returns with the unit's state st: stuck detection, the step summary,
\* and run() up to the next await or its end
StepReturns(st) ==
    /\ stuck' = is_stuck(memory')
    /\ next_step_prompt' = IF stuck'
                           THEN handle_stuck_state(next_step_prompt)
                           ELSE next_step_prompt
    /\ run_log' = [run_log EXCEPT !.steps = @ + 1,
                                  !.finished = @ \/ st = "FINISHED"]
    /\ LoopOrExit(st, current_step, Append(results, StepEntry(current_step)))

\* the awaited llm.ask_tool() of think() ends; think() finishes, and act()
\* runs up to its first await (execute_tool) or, without tool calls, to its end
Think(r) ==
    /\ apc = "step"
    /\ ThinkCount(memory) < MaxToolSteps
    /\ memory' = ThinkMessages(memory, tool_choices, r)
    /\ tool_calls' = IF r.kind \in {"response", "no_response"} THEN r.calls
                     ELSE tool_calls
    /\ step_out' = <<>>
    /\ UNCHANGED previous_state
    /\ LET log == [ask |-> r.kind, content |-> r.content,
                   think |-> ThinkReturns(tool_choices, r), ret |-> <<>>]
       IN CASE ThinkReturns(tool_choices, r) = "raise" ->
                   /\ StepRaises
                   /\ call_idx' = 0
                   /\ step_log' = log
            [] ~ShouldAct(ThinkReturns(tool_choices, r)) ->
                   /\ StepReturns(IF r.kind = "token_limit" THEN "FINISHED" ELSE state)
                   /\ call_idx' = 0
                   /\ step_log' = [log EXCEPT !.ret = <<ThinkingComplete>>]
            [] OTHER ->
                   IF r.calls # <<>>
                   THEN /\ apc' = "act"
                        /\ call_idx' = 1
                        /\ step_log' = log
                        /\ UNCHANGED <<state, current_step, results, run_log,
                                       next_step_prompt, stuck>>
                   ELSE /\ call_idx' = 0
                        /\ IF tool_choices = "required"
                           THEN StepRaises /\ step_log' = log
                           ELSE /\ StepReturns(state)
                                /\ step_log' =
                                     [log EXCEPT !.ret = <<ActWithoutCalls(memory')>>]
    /\ RunExit
    /\ UNCHANGED <<wvars, cvars, max_steps, tool_choices>>
    /\ UNCHANGED xvars

\* the awaited execute_tool() of the current command ends; act() appends the
\* tool message and goes on to the next command or returns
ActCall(out) ==
    /\ apc = "act"
    /\ UNCHANGED previous_state
    /\ LET command == tool_calls[call_idx]
           observation == execute_tool(command, out)
           st == IF SpecialToolRuns(command, out) THEN "FINISHED" ELSE state
       IN /\ out \in ReachedOutcomes(command)
          /\ IF observation = "raise"
             THEN /\ UNCHANGED <<memory, step_out, step_log>>
                  /\ call_idx' = 0
                  /\ StepRaises
             ELSE /\ memory' = Append(memory, ToolMessage("tool", observation,
                                                          command.id, command.name,
                                                          <<>>))
                  /\ step_out' = Append(step_out, observation)
                  /\ IF ActContinues(call_idx, tool_calls, st)
                     THEN /\ call_idx' = call_idx + 1
                          /\ state' = st
                          /\ UNCHANGED <<apc, current_step, results, run_log,
                                         next_step_prompt, stuck, step_log>>
                     ELSE /\ call_idx' = 0
                          /\ step_log' = [step_log EXCEPT !.ret = Join(step_out')]
                          /\ StepReturns(st)
    /\ RunExit
    /\ UNCHANGED <<wvars, cvars, max_steps, tool_choices, tool_calls>>
    /\ UNCHANGED xvars

-----------------------------------------------------------------------------
(* Tool collection: src/app/tool/tool_collection.py *)

\* tool objects: a name and the identity of the object
MaxTools == 2
ToolNames == {"a", "b", "c"}
ToolObjects == [name : ToolNames, id : 1..MaxTools]
NoTool == [name |-> None, id |-> 0]

\* {tool.name: tool for tool in tools}: a later tool replaces an earlier one
\* of the same name
RECURSIVE MapOf(_)
MapOf(ts) ==
    IF ts = <<>> THEN [name \in ToolNames |-> NoTool]
    ELSE LET t == ts[Len(ts)]
             front == MapOf(SubSeq(ts, 1, Len(ts) - 1))
         IN [front EXCEPT ![t.name] = t]

\* ToolCollection(*tools)
NewCollection(ts) == [tools |-> ts, tool_map |-> MapOf(ts)]

\* add_tool on a collection k: skipped when the name is in tool_map
add_tool(k, t) ==
    IF k.tool_map[t.name] # NoTool THEN k
    ELSE [tools |-> Append(k.tools, t),
          tool_map |-> [k.tool_map EXCEPT ![t.name] = t]]

\* add_tools: add_tool for each argument in turn
RECURSIVE add_tools(_, _)
add_tools(k, ts) ==
    IF ts = <<>> THEN k ELSE add_tools(add_tool(k, Head(ts)), Tail(ts))

ToolArgs == UNION {[1..n -> ToolObjects] : n \in 0..MaxTools}

AddTool(t) ==
    /\ LET k == add_tool([tools |-> tools, tool_map |-> tool_map], t)
       IN tools' = k.tools /\ tool_map' = k.tool_map
    /\ UNCHANGED <<wvars, avars, pvars, fvars>>

AddTools(ts) ==
    /\ LET k == add_tools([tools |-> tools, tool_map |-> tool_map], ts)
       IN tools' = k.tools /\ tool_map' = k.tool_map
    /\ UNCHANGED <<wvars, avars, pvars, fvars>>

-----------------------------------------------------------------------------
(* Planning tool: src/app/tool/planning.py *)

MaxPlanSteps == 2

\* the plan ids the commands are called with; None is the omitted argument
PlanIds == {"p", "q"}
StepTexts == {"s", "t"}
\* a list item that is not a str
NonString == "<int>"
StepStatuses == {"not_started", "in_progress", "completed", "blocked"}
\* step_index=None
NoIndex == -99
\* Python truth value of an optional string argument: None and "" are false
Falsy(x) == x \in {None, ""}

SeqsUpTo(S, n) == UNION {[1..k -> S] : k \in 0..n}
\* all(isinstance(step, str) for step in steps)
AllStrings(steps) == \A i \in 1..Len(steps) : steps[i] # NonString

\* the outcome of a command: the storage after it and whether it returned a
\* ToolResult (ok) or raised ToolError
Returned(ps, cur) == [plans |-> ps, current |-> cur, ok |-> TRUE]
Raised(ps, cur) == [plans |-> ps, current |-> cur, ok |-> FALSE]

\* self.plans[plan_id] = plan
Store(ps, id, plan) == [k \in (DOMAIN ps) \cup {id} |-> IF k = id THEN plan ELSE ps[k]]

\* _create_plan; steps = <<>> stands for None and for [], which `not steps` treats alike
create_plan(ps, cur, plan_id, title, steps) ==
    IF \/ Falsy(plan_id)
       \/ plan_id \in DOMAIN ps
       \/ Falsy(title)
       \/ steps = <<>>
       \/ ~AllStrings(steps)
    THEN Raised(ps, cur)
    ELSE Returned(Store(ps, plan_id,
                        [title |-> title,
                         steps |-> steps,
                         step_statuses |-> [i \in 1..Len(steps) |-> "not_started"],
                         step_notes |-> [i \in 1..Len(steps) |-> ""]]),
                  plan_id)

\* faulty variant: a step keeps its status and note by index alone
KeepsByIndex(old_steps, steps, i) == i <= Len(old_steps)
\* if i < len(old_steps) and step == old_steps[i]
KeepsStep(old_steps, steps, i) == i <= Len(old_steps) /\ steps[i] = old_steps[i]

\* _update_plan; the title is assigned before the steps are examined
update_plan(ps, cur, plan_id, title, steps) ==
    IF Falsy(plan_id) \/ plan_id \notin DOMAIN ps
    THEN Raised(ps, cur)
    ELSE LET plan == ps[plan_id]
             titled == IF Falsy(title) THEN plan ELSE [plan EXCEPT !.title = title]
         IN IF steps = <<>>
            THEN Returned(Store(ps, plan_id, titled), cur)
            ELSE IF ~AllStrings(steps)
            THEN Raised(Store(ps, plan_id, titled), cur)
            ELSE Returned(Store(ps, plan_id,
                     [title |-> titled.title,
                      steps |-> steps,
                      step_statuses |->
                          [i \in 1..Len(steps) |->
                              IF KeepsStep(plan.steps, steps, i)
                              THEN plan.step_statuses[i] ELSE "not_started"],
                      step_notes |->
                          [i \in 1..Len(steps) |->
                              IF KeepsStep(plan.steps, steps, i)
                              THEN plan.step_notes[i] ELSE ""]]),
                   cur)

\* _set_active_plan
set_active_plan(ps, cur, plan_id) ==
    IF Falsy(plan_id) \/ plan_id \notin DOMAIN ps
    THEN Raised(ps, cur)
    ELSE Returned(ps, plan_id)

\* if step_status and step_status not in [...]: raise ToolError
StatusValid(step_status) == Falsy(step_status) \/ step_status \in StepStatuses

\* _mark_step; step_index counts from 0 as in the source
mark_step(ps, cur, plan_id, step_index, step_status, step_notes) ==
    LET id == IF Falsy(plan_id) THEN cur ELSE plan_id
    IN IF \/ Falsy(id)
          \/ id \notin DOMAIN ps
          \/ step_index = NoIndex
       THEN Raised(ps, cur)
       ELSE LET plan == ps[id]
                i == step_index + 1
            IN IF \/ step_index < 0
                  \/ step_index >= Len(plan.steps)
                  \/ ~StatusValid(step_status)
               THEN Raised(ps, cur)
               ELSE Returned(Store(ps, id,
                        [plan EXCEPT
                           !.step_statuses[i] = IF Falsy(step_status) THEN @ ELSE step_status,
                           !.step_notes[i] = IF Falsy(step_notes) THEN @ ELSE step_notes]),
                      cur)

\* _delete_plan
delete_plan(ps, cur, plan_id) ==
    IF Falsy(plan_id) \/ plan_id \notin DOMAIN ps
    THEN Raised(ps, cur)
    ELSE Returned([k \in (DOMAIN ps) \ {plan_id} |-> ps[k]],
                  IF cur = plan_id THEN None ELSE cur)

\* the arguments the commands are called with
PlanIdArgs == {None} \cup PlanIds
\* plans are created under one id, so that the other is an id never stored
CreateIdArgs == {None, "p"}
TitleArgs == {None, "t"}
StepsArgs == SeqsUpTo(StepTexts, MaxPlanSteps) \cup {<<NonString>>}
IndexArgs == {NoIndex} \cup (-1..MaxPlanSteps)
StatusArgs == {None, "done"} \cup StepStatuses
NotesArgs == {None, "n"}

\* PlanningTool.execute: the command is dispatched and its outcome recorded
Command(name, r) ==
    /\ plans' = r.plans
    /\ current_plan_id' = r.current
    /\ plan_log' = [command |-> name, ok |-> r.ok]
    /\ UNCHANGED <<wvars, avars, tools, tool_map, fvars>>

CreatePlan(plan_id, title, steps) ==
    Command("create", create_plan(plans, current_plan_id, plan_id, title, steps))

UpdatePlan(plan_id, title, steps) ==
    Command("update", update_plan(plans, current_plan_id, plan_id, title, steps))

SetActivePlan(plan_id) ==
    Command("set_active", set_active_plan(plans, current_plan_id, plan_id))

MarkStep(plan_id, step_index, step_status, step_notes) ==
    Command("mark_step", mark_step(plans, current_plan_id, plan_id,
                                   step_index, step_status, step_notes))

DeletePlan(plan_id) ==
    Command("delete", delete_plan(plans, current_plan_id, plan_id))

-----------------------------------------------------------------------------
(* Planning flow: src/app/flow/planning.py *)

\* PlanningFlow.active_plan_id
ActivePlanId == "p"
\* PlanStepStatus.get_active_statuses()
ActiveStatuses == {"not_started", "in_progress"}
\* the steps of the default plan of _create_initial_plan
DefaultSteps == <<"analyse", "execute", "verify">>

\* _get_current_step_info: the status read for step i (counted from 1 here)
StatusAt(plan, i) ==
    IF i > Len(plan.step_statuses) THEN "not_started" ELSE plan.step_statuses[i]
\* _get_current_step_info: the steps the for-loop can stop at
ActiveSteps(plan) == {i \in 1..Len(plan.steps) : StatusAt(plan, i) \in ActiveStatuses}
\* the first of them, counted from 0 as in the source; NoIndex for (None, None)
get_current_step_info(ps) ==
    IF ActivePlanId \notin DOMAIN ps THEN NoIndex
    ELSE IF ActiveSteps(ps[ActivePlanId]) = {} THEN NoIndex
    ELSE (CHOOSE i \in ActiveSteps(ps[ActivePlanId]) :
             \A j \in ActiveSteps(ps[ActivePlanId]) : i <= j) - 1

\* what the backend answers to _create_initial_plan: a planning call that
\* creates a plan, no usable call (the default plan is created), or a fault
PlanAnswers == {"create", "default", "raises"}
\* what executor.run(step_prompt) does: returns with the unit IDLE, returns
\* with the unit FINISHED, or raises
ExecutorRuns == {"returned", "finished", "raised"}

\* execute() up to the loop: the initial plan is created when input is given;
\* a fault of the backend or of the tool leaves through `except Exception`
FlowExecute(input_text, answer, steps) ==
    /\ fpc = "new"
    /\ IF Falsy(input_text)
       THEN /\ fpc' = "select"
            /\ UNCHANGED pvars
       ELSE LET r == create_plan(plans, current_plan_id, ActivePlanId, "t",
                                 IF answer = "create" THEN steps ELSE DefaultSteps)
            IN IF answer = "raises"
               THEN /\ fpc' = "returned"
                    /\ UNCHANGED pvars
               ELSE /\ plans' = r.plans
                    /\ current_plan_id' = r.current
                    /\ plan_log' = [command |-> "create", ok |-> r.ok]
                    /\ fpc' = IF r.ok /\ ActivePlanId \in DOMAIN r.plans
                              THEN "select" ELSE "returned"
    /\ UNCHANGED <<wvars, avars, tools, tool_map, current_step_index>>

\* one pass of the loop up to the executor's run(): _get_current_step_info
\* marks the first active step in_progress; without one the plan is
\* finalized and execute() returns
FlowSelect ==
    /\ fpc = "select"
    /\ LET i == get_current_step_info(plans)
           r == mark_step(plans, current_plan_id, ActivePlanId, i, "in_progress", None)
       IN /\ current_step_index' = i
          /\ IF i = NoIndex
             THEN /\ fpc' = "returned"
                  /\ UNCHANGED pvars
             ELSE /\ fpc' = "run"
                  /\ plans' = r.plans
                  /\ current_plan_id' = r.current
                  /\ plan_log' = [command |-> "mark_step", ok |-> r.ok]
    /\ UNCHANGED <<wvars, avars, tools, tool_map>>

\* _execute_step and the rest of the pass: the executor runs; only a run that
\* returned marks the step completed; the loop ends when the executor is
\* FINISHED
FlowRun(run) ==
    /\ fpc = "run"
    /\ RunRejects(state) => run = "raised"
    /\ LET r == mark_step(plans, current_plan_id, ActivePlanId,
                          current_step_index, "completed", None)
           after == CASE RunRejects(state) -> state
                      [] run = "raised" -> ContextExit("ERROR", "IDLE")
                      [] run = "finished" -> ContextExit("FINISHED", "IDLE")
                      [] run = "returned" -> ContextExit("RUNNING", "IDLE")
       IN /\ state' = after
          /\ IF run = "raised"
             THEN UNCHANGED pvars
             ELSE /\ plans' = r.plans
                  /\ current_plan_id' = r.current
                  /\ plan_log' = [command |-> "mark_step", ok |-> r.ok]
          /\ fpc' = IF after = "FINISHED" THEN "returned" ELSE "select"
    /\ UNCHANGED <<wvars, tvars, cvars, tools, tool_map, current_step_index,
                   current_step, max_steps, memory, next_step_prompt, apc,
                   previous_state, results, run_log, stuck>>

-----------------------------------------------------------------------------
(* Initial states *)

\* the components no workflow or unit action touches, before their own
\* specifications construct them
NoCommand == [command |-> None, ok |-> TRUE]
\* PlanningTool(): no plan stored, none active
PlanningNew ==
    /\ plans = <<>>
    /\ current_plan_id = None
    /\ plan_log = NoCommand
\* PlanningFlow before execute()
FlowNew ==
    /\ fpc = "unused"
    /\ current_step_index = NoIndex
ExtraNew ==
    /\ tools = <<>>
    /\ tool_map = [name \in ToolNames |-> NoTool]
    /\ PlanningNew
    /\ FlowNew

NoError == [set |-> FALSE, node |-> None]
NoControl == [op |-> None, ret |-> FALSE, before |-> None]
NoExecLog == [reruns |-> 0, halted |-> 0, resumed |-> FALSE]

\* the execution unit before any run() (and throughout the workflow specifications)
AgentNew ==
    /\ current_step = 0
    /\ memory = <<>>
    /\ next_step_prompt = <<"next">>
    /\ apc = "idle"
    /\ stuck = FALSE
    /\ previous_state = None
    /\ results = <<>>
    /\ run_log = [runs |-> 0, rejects |-> 0, steps |-> 0, start_step |-> 0,
                  finished |-> FALSE, fault |-> FALSE]
    /\ tool_calls = <<>>
    /\ call_idx = 0
    /\ step_out = <<>>
    /\ cleanups = [t \in RegisteredTools |-> 0]
    /\ step_log = NoStep
    /\ ctl_log = NoControl
    /\ exec_log = NoExecLog

\* the executor's context as __init__ creates it
ContextNew ==
    /\ ctx_state = "PENDING"
    /\ current_node = None
    /\ node_results = [n \in Nodes |-> Absent]
    /\ error_info = NoError
    /\ end_time = FALSE
    /\ execution_levels = <<>>
    /\ level_idx = 0
    /\ ntask = [n \in Nodes |-> NoTask]
    /\ gtask = [g \in Groups |-> "none"]

Plain(deps) ==
    [deps |-> deps,
     cond |-> [n \in Nodes |-> NoCond],
     group |-> [n \in Nodes |-> None],
     retry |-> [n \in Nodes |-> 0],
     timeout |-> [n \in Nodes |-> 0],
     agent_type |-> [n \in Nodes |-> "manus"]]

\* every dependency relation over the three nodes and the unknown id
OrderDefinitions == {Plain(deps) : deps \in [Nodes -> SUBSET DepIds]}

\* dependency relations the executor is run on: A |-> a, B |-> b, C |-> c
Deps(a, b, c) == [n \in Nodes |-> CASE n = "A" -> a [] n = "B" -> b [] n = "C" -> c]
ExecGraphs ==
    { Deps({}, {}, {}),                     \* one level of three
      Deps({}, {"A"}, {"B"}),               \* chain
      Deps({}, {"A"}, {"A", "B"}),          \* [[A],[B],[C]] with C after A and B
      Deps({}, {"A"}, {"A"}),               \* fan-out
      Deps({}, {}, {"A", "B"}),             \* fan-in
      Deps({"B"}, {"A"}, {}),               \* cycle A <-> B beside C
      Deps({"B"}, {"A"}, {"A"}),            \* cycle A <-> B with C depending on it
      Deps({"C"}, {"A"}, {"B"}),            \* cycle through all three
      Deps({}, {"X"}, {"B"}) }              \* unknown dependency id

\* at most one node carries a condition, at most one node retries
CondChoices ==
    {[n \in Nodes |-> IF n = m THEN c ELSE NoCond] :
        m \in Nodes, c \in {NoCond, CondFalse, CondRef("A")}}
RetryChoices ==
    {[n \in Nodes |-> IF n = m THEN r ELSE 0] : m \in Nodes, r \in 0..MaxRetry}
GroupChoices == [Nodes -> {None} \cup Groups]

ExecDefinitions ==
    {[deps |-> d, cond |-> c, group |-> g, retry |-> r,
      timeout |-> [n \in Nodes |-> 0], agent_type |-> [n \in Nodes |-> "manus"]] :
        d \in ExecGraphs, c \in CondChoices, g \in GroupChoices, r \in RetryChoices}

InitOrder ==
    /\ definition \in OrderDefinitions
    /\ wpc = "order_input"
    /\ ContextNew
    /\ state = "IDLE" /\ max_steps = 0 /\ tool_choices = "auto" /\ AgentNew
    /\ ExtraNew

InitExec ==
    /\ definition \in ExecDefinitions
    /\ wpc = "new"
    /\ ContextNew
    /\ state = "IDLE" /\ max_steps = 0 /\ tool_choices = "auto" /\ AgentNew
    /\ ExtraNew

\* definition.get_execution_order() called on its own; an unknown dependency id
\* fails at graph[dep] with KeyError
OrderCall ==
    /\ wpc = "order_input"
    /\ IF validate_dependencies(definition)
       THEN /\ execution_levels' = get_execution_order(definition)
            /\ wpc' = "order_done"
       ELSE /\ wpc' = "order_keyerror"
            /\ UNCHANGED execution_levels
    /\ UNCHANGED <<avars, definition, ctx_state, current_node, node_results, error_info,
                   end_time, level_idx, ntask, gtask>>
    /\ UNCHANGED xvars

NextOrder == OrderCall

NextExec ==
    \/ Construct
    \/ Execute
    \/ \E g \in Groups : GroupStart(g)
    \/ \E n \in Nodes : NodeStart(n)
    \/ \E n \in Nodes, run \in RunBehaviours : AttemptEnd(n, run)
    \/ \E g \in Groups : GroupJoin(g)
    \/ LevelJoin

SpecOrder == InitOrder /\ [][NextOrder]_vars
SpecExec == InitExec /\ [][NextExec]_vars

\* definitions with timeouts: one level or a chain, ungrouped or with A and B in
\* one group, every retry count on every node, a timeout on A and C or on none,
\* every agent type registered or the one of C not
TimeoutChoices == {[n \in Nodes |-> 0], [n \in Nodes |-> IF n = "B" THEN 0 ELSE 5]}
TimeoutDefinitions ==
    {[deps |-> d, cond |-> [n \in Nodes |-> NoCond], group |-> g, retry |-> r,
      timeout |-> t, agent_type |-> a] :
        d \in {Deps({}, {}, {}), Deps({}, {"A"}, {"B"})},
        g \in {[n \in Nodes |-> None],
               [n \in Nodes |-> IF n = "C" THEN None ELSE "g"]},
        r \in [Nodes -> 0..MaxRetry],
        t \in TimeoutChoices,
        a \in {[n \in Nodes |-> "manus"],
               [n \in Nodes |-> IF n = "C" THEN "unregistered" ELSE "manus"]}}

InitTimeout ==
    /\ definition \in TimeoutDefinitions
    /\ wpc = "new"
    /\ ContextNew
    /\ state = "IDLE" /\ max_steps = 0 /\ tool_choices = "auto" /\ AgentNew
    /\ ExtraNew

SpecTimeout == InitTimeout /\ [][NextExec]_vars

\* definitions the lifecycle controls are exercised on: chain, fan-in and one
\* level, ungrouped or with A and B in one group; one retry on A or none
ControlDefinitions ==
    {[deps |-> d, cond |-> [n \in Nodes |-> NoCond], group |-> g, retry |-> r,
      timeout |-> [n \in Nodes |-> 0], agent_type |-> [n \in Nodes |-> "manus"]] :
        d \in {Deps({}, {"A"}, {"B"}), Deps({}, {}, {"A", "B"}), Deps({}, {}, {})},
        g \in {[n \in Nodes |-> None],
               [n \in Nodes |-> IF n = "C" THEN None ELSE "g"]},
        r \in {[n \in Nodes |-> 0], [n \in Nodes |-> IF n = "A" THEN 1 ELSE 0]}}

InitControl ==
    /\ definition \in ControlDefinitions
    /\ wpc = "new"
    /\ ContextNew
    /\ state = "IDLE" /\ max_steps = 0 /\ tool_choices = "auto" /\ AgentNew
    /\ ExtraNew

NextControl ==
    \/ Construct
    \/ Execute
    \/ ExecuteAgain
    \/ \E g \in Groups : GroupStart(g)
    \/ \E n \in Nodes : NodeStart(n)
    \/ \E n \in Nodes, run \in RunBehaviours : AttemptEnd(n, run)
    \/ \E g \in Groups : GroupJoin(g)
    \/ LevelJoin
    \/ pause
    \/ resume
    \/ cancel

SpecControl == InitControl /\ [][NextControl]_vars

\* a constructed unit: state and max_steps are fields the constructor accepts
InitAgent ==
    /\ state \in AgentStates
    /\ max_steps \in 0..MaxSteps
    /\ tool_choices = "auto"
    /\ AgentNew
    /\ definition = Plain(Deps({}, {}, {}))
    /\ wpc = "unused"
    /\ ContextNew
    /\ ExtraNew

NextAgent ==
    \/ \E request \in Requests : RunCall(request)
    \/ \E kind \in StepKinds, c \in StepContents : StepEnd(kind, c)

SpecAgent == InitAgent /\ [][NextAgent]_vars

\* a constructed tool-calling unit
InitToolCall ==
    /\ state \in AgentStates
    /\ max_steps \in 0..MaxToolSteps
    /\ tool_choices \in ToolChoices
    /\ AgentNew
    /\ definition = Plain(Deps({}, {}, {}))
    /\ wpc = "unused"
    /\ ContextNew
    /\ ExtraNew

NextToolCall ==
    \/ \E request \in Requests \ {None} : ToolRunCall(request)
    \/ \E r \in AskOutcomes : Think(r)
    \/ \E out \in ToolOutcomes : ActCall(out)

SpecToolCall == InitToolCall /\ [][NextToolCall]_vars

\* one step() of a tool-calling unit whose run() has been accepted, with every
\* answer of the backend
InitStep ==
    /\ state = "RUNNING"
    /\ previous_state = "IDLE"
    /\ max_steps = 1
    /\ current_step = 1
    /\ apc = "step"
    /\ tool_choices \in ToolChoices
    /\ memory \in {<<>>, <<PlainMessage("user", "req")>>,
                   <<PlainMessage("user", "req"), PlainMessage("assistant", "")>>}
    /\ next_step_prompt = <<"next">>
    /\ stuck = FALSE
    /\ results = <<>>
    /\ run_log = [runs |-> 1, rejects |-> 0, steps |-> 0, start_step |-> 0,
                  finished |-> FALSE, fault |-> FALSE]
    /\ tool_calls = <<>>
    /\ call_idx = 0
    /\ step_out = <<>>
    /\ cleanups = [t \in RegisteredTools |-> 0]
    /\ step_log = NoStep
    /\ ctl_log = NoControl
    /\ exec_log = NoExecLog
    /\ definition = Plain(Deps({}, {}, {}))
    /\ wpc = "unused"
    /\ ContextNew
    /\ ExtraNew

NextStep ==
    \/ \E r \in StepAskOutcomes : Think(r)
    \/ \E out \in ToolOutcomes : ActCall(out)
    \/ ActAlone

SpecStep == InitStep /\ [][NextStep]_vars

\* is_stuck() on its own: a unit whose memory receives messages one by one,
\* stuck detection applied after each
MaxMemory == 4
Roles == {"user", "assistant", "tool"}
Contents == {"", "x", "y"}

InitStuck ==
    /\ state = "IDLE"
    /\ max_steps = 0
    /\ tool_choices = "auto"
    /\ AgentNew
    /\ definition = Plain(Deps({}, {}, {}))
    /\ wpc = "unused"
    /\ ContextNew
    /\ ExtraNew

AddMessage(role, c) ==
    /\ Len(memory) < MaxMemory
    /\ memory' = Append(memory, Message(role, c))
    /\ stuck' = is_stuck(memory')
    /\ UNCHANGED <<wvars, tvars, cvars, state, current_step, max_steps,
                   next_step_prompt, apc, previous_state, results, run_log>>
    /\ UNCHANGED xvars

NextStuck == \E role \in Roles, c \in Contents : AddMessage(role, c)

SpecStuck == InitStuck /\ [][NextStuck]_vars

\* a ToolCollection constructed from any tuple of tool objects
InitCollection ==
    /\ \E ts \in ToolArgs : /\ tools = NewCollection(ts).tools
                            /\ tool_map = NewCollection(ts).tool_map
    /\ state = "IDLE" /\ max_steps = 0 /\ tool_choices = "auto" /\ AgentNew
    /\ definition = Plain(Deps({}, {}, {}))
    /\ wpc = "unused"
    /\ ContextNew
    /\ PlanningNew
    /\ FlowNew

NextCollection ==
    \/ \E t \in ToolObjects : AddTool(t)
    \/ \E ts \in ToolArgs : AddTools(ts)

SpecCollection == InitCollection /\ [][NextCollection]_vars

\* a PlanningTool with empty storage, then any commands
InitPlanning ==
    /\ state = "IDLE" /\ max_steps = 0 /\ tool_choices = "auto" /\ AgentNew
    /\ definition = Plain(Deps({}, {}, {}))
    /\ wpc = "unused"
    /\ ContextNew
    /\ ExtraNew

NextPlanning ==
    \/ \E id \in CreateIdArgs, title \in TitleArgs, steps \in StepsArgs :
          CreatePlan(id, title, steps)
    \/ \E id \in PlanIdArgs, title \in TitleArgs, steps \in StepsArgs :
          UpdatePlan(id, title, steps)
    \/ \E id \in PlanIdArgs : SetActivePlan(id)
    \/ \E id \in PlanIdArgs, i \in IndexArgs, st \in StatusArgs, notes \in NotesArgs :
          MarkStep(id, i, st, notes)
    \/ \E id \in PlanIdArgs : DeletePlan(id)

SpecPlanning == InitPlanning /\ [][NextPlanning]_vars

\* the plans execute() can find in storage: made by create, marked since
StoredPlans ==
    UNION {{[title |-> "t", steps |-> steps, step_statuses |-> sts,
             step_notes |-> [i \in 1..Len(steps) |-> ""]] :
               sts \in [1..Len(steps) -> StepStatuses]} :
           steps \in SeqsUpTo(StepTexts, MaxPlanSteps) \ {<<>>}}

\* a PlanningFlow with one executor, before execute(); the executor is a unit
\* between runs, IDLE or FINISHED; the storage is empty or holds the active plan
InitFlow ==
    /\ state \in {"IDLE", "FINISHED"}
    /\ max_steps = 0 /\ tool_choices = "auto" /\ AgentNew
    /\ definition = Plain(Deps({}, {}, {}))
    /\ wpc = "unused"
    /\ ContextNew
    /\ tools = <<>>
    /\ tool_map = [name \in ToolNames |-> NoTool]
    /\ \/ PlanningNew
       \/ \E plan \in StoredPlans :
             /\ plans = Store(<<>>, ActivePlanId, plan)
             /\ current_plan_id = ActivePlanId
             /\ plan_log = NoCommand
    /\ fpc = "new"
    /\ current_step_index = NoIndex

NextFlow ==
    \/ \E input_text \in {"", "task"}, answer \in PlanAnswers,
          steps \in SeqsUpTo(StepTexts, MaxPlanSteps) :
          FlowExecute(input_text, answer, steps)
    \/ FlowSelect
    \/ \E run \in ExecutorRuns : FlowRun(run)

\* the flow keeps running: execute() is a coroutine that is awaited to its end
SpecFlow == InitFlow /\ [][NextFlow]_vars /\ WF_vars(NextFlow)

-----------------------------------------------------------------------------
(* Properties *)

\* n lies in level k of the computed order
InLevel(n, k) == \E i \in 1..Len(execution_levels[k]) : execution_levels[k][i] = n
Occurrences(n) ==
    Cardinality({p \in (1..Len(execution_levels)) \X (1..Len(NodeList)) :
                    /\ p[2] <= Len(execution_levels[p[1]])
                    /\ execution_levels[p[1]][p[2]] = n})
\* some node reaches itself along dependency edges
Cyclic(d) ==
    \E k \in 1..Len(NodeList) : \E p \in [1..k -> Nodes] :
        /\ \A i \in 1..(k - 1) : p[i + 1] \in d.deps[p[i]]
        /\ p[1] \in d.deps[p[k]]
Executed == wpc \in {"returned", "raised"}
LastEntry(res) == res[Len(res)]

\* C1: for an acyclic definition with only existing dependency ids,
\* get_execution_order returns levels holding every node id exactly once, and
\* every dependency of a node lies in a level of strictly smaller index.
C1_LevelingCorrect ==
    (wpc = "order_done" /\ ~Cyclic(definition)) =>
        \A n \in Nodes :
            /\ Occurrences(n) = 1
            /\ \A k \in 1..Len(execution_levels) : InLevel(n, k) =>
                  \A dep \in definition.deps[n] :
                      \E j \in 1..(k - 1) : InLevel(dep, j)
C1_Witness ==
    /\ wpc = "order_done"
    /\ definition.deps = Deps({}, {"A"}, {"A", "B"})
    /\ execution_levels = << <<"A">>, <<"B">>, <<"C">> >>

\* C2: once a node without parallel group has failed on all its attempts, the
\* workflow is never COMPLETED, no later level is started, and execute() ends
\* by raising with state FAILED and error info recorded.
C2_FailurePropagates ==
    \A n \in Nodes :
        (ntask[n].st = "raised" /\ definition.group[n] = None) =>
            /\ ctx_state # "COMPLETED"
            /\ InLevel(n, level_idx)
            /\ Executed => (wpc = "raised" /\ ctx_state = "FAILED" /\ error_info.set)

\* C3: after execute() on a workflow in which every node ran successfully, the
\* result map holds one entry per node under the node's id and the state is
\* COMPLETED, for grouped and ungrouped nodes alike.
C3_ResultPerNode ==
    (wpc = "returned" /\ \A n \in Nodes : ntask[n].st = "returned"
                                          /\ ntask[n].value.kind = "result") =>
        /\ ctx_state = "COMPLETED"
        /\ \A n \in Nodes : node_results[n] = ntask[n].value /\ node_results[n].node = n

\* C4: a node with retry_count r whose every attempt fails is attempted exactly
\* r + 1 times; no node is attempted more than r + 1 times, and a successful
\* attempt is the node's last one.
C4_RetryAccounting ==
    \A n \in Nodes :
        LET t == ntask[n]
            r == definition.retry[n]
        IN /\ t.attempts <= r + 1
           /\ t.st = "raised" => t.attempts = r + 1
           /\ (t.st = "returned" /\ t.value.kind = "result") =>
                  t.value.attempt = t.attempts
C4_Witness ==
    \E n \in Nodes :
        definition.retry[n] = 2 /\ ntask[n].st = "raised" /\ ntask[n].attempts = 3

\* C5: a definition with a dependency cycle is reported as a fault; execute()
\* never returns normally with nodes left out of every level.
C5_CycleReported ==
    (Cyclic(definition) /\ Executed) =>
        /\ wpc = "raised"
        /\ \A n \in Nodes : \E k \in 1..Len(execution_levels) : InLevel(n, k)

\* C6: a node whose condition evaluated to false is recorded in the result map
\* as skipped (condition_not_met) once execute() has returned, and no execution
\* unit was created for it; with and without a parallel group.
C6_SkipRecorded ==
    \A n \in Nodes :
        (wpc = "returned" /\ (ntask[n].st = "filtered"
                              \/ (ntask[n].st = "returned" /\ ntask[n].value = Skipped))) =>
            /\ node_results[n] = Skipped
            /\ ntask[n].units = 0

\* C7: if a step set FINISHED during run(), the state after run() returns is
\* FINISHED and no max-steps notice was appended, at every step index.
C7_FinishedKept ==
    (apc = "returned" /\ run_log.finished) =>
        /\ state = "FINISHED"
        /\ LastEntry(results) # MaxStepsNotice

\* C8: a unit with max_steps = n >= 1 entered with step counter 0 whose steps
\* neither set FINISHED nor raise executes exactly n steps and returns with
\* state IDLE, current_step 0 and the max-steps notice as last summary entry.
C8_MaxStepsTermination ==
    (apc = "returned" /\ max_steps >= 1 /\ run_log.start_step = 0
        /\ ~run_log.finished) =>
        /\ run_log.steps = max_steps
        /\ state = "IDLE"
        /\ current_step = 0
        /\ LastEntry(results) = MaxStepsNotice
C8_Witness ==
    /\ apc = "returned" /\ max_steps = 3 /\ run_log.start_step = 0
    /\ ~run_log.finished /\ run_log.steps = 3
    /\ results = <<StepEntry(1), StepEntry(2), StepEntry(3), MaxStepsNotice>>

\* C9 as stated: after a step raised out of run(), the unit's state is ERROR.
C9_FaultLeavesError == apc = "raised" => state = "ERROR"
\* C9 amended: after a step raised out of run(), the fault has reached the caller
\* and the unit's state is the one held before RUNNING, which is IDLE.
C9_FaultRestoresIdle ==
    apc = "raised" => (run_log.fault /\ state = previous_state /\ state = "IDLE")
C9_Witness == apc = "raised" /\ run_log.fault /\ run_log.steps = 2

\* C10: run() on a unit whose state is not IDLE raises at once and leaves state,
\* step counter and memory as they were; a run is entered only from IDLE.
C10_RejectedRunChangesNothing ==
    [][ /\ run_log'.rejects # run_log.rejects =>
              /\ state # "IDLE"
              /\ state' = state /\ current_step' = current_step /\ memory' = memory
              /\ apc' = apc /\ run_log'.steps = run_log.steps
        /\ run_log'.runs # run_log.runs => state = "IDLE" ]_vars
C10_Witness ==
    /\ run_log.rejects > 0 /\ run_log.runs > 0
    /\ state = "FINISHED" /\ memory # <<>>

\* C11: in the act phase a command that names an unknown tool, carries a payload
\* that is not JSON, or whose tool reports or raises an error never raises out
\* of the step: an error observation is appended to memory as the tool message
\* of that command, the remaining commands of the step are still processed, and
\* after the last one the run loop goes on to the next step.
C11_ToolErrorContained ==
    [][ apc = "act" =>
          /\ apc' # "raised"
          /\ memory' # memory =>
               LET command == tool_calls[call_idx]
                   msg == memory'[Len(memory')]
               IN /\ memory' = Append(memory, msg)
                  /\ msg.role = "tool"
                  /\ msg.tool_call_id = command.id
                  /\ msg.name = command.name
                  /\ command.name \notin RegisteredTools
                        => msg.content = "error: unknown tool"
                  /\ (command.name \in RegisteredTools
                        /\ command.arguments = "malformed")
                        => msg.content = "error: invalid JSON arguments"
                  /\ \A out \in {"tool_error", "raise"} :
                        ActCall(out) => msg.content \in ErrorObservations
                  /\ call_idx < Len(tool_calls)
                        => (apc' = "act" /\ call_idx' = call_idx + 1)
                  /\ (/\ call_idx = Len(tool_calls)
                      /\ state = "RUNNING"
                      /\ command.name \notin SpecialToolNames
                      /\ current_step < max_steps)
                        => /\ apc' = "step"
                           /\ state' = "RUNNING"
                           /\ current_step' = current_step + 1 ]_vars
C11_Witness ==
    /\ apc = "step" /\ current_step = 2 /\ state = "RUNNING"
    /\ \E i \in 1..Len(memory) :
          /\ memory[i].role = "tool"
          /\ memory[i].content = "error: unknown tool"
          /\ memory[i].name = "does_not_exist"
          /\ i < Len(memory)
          /\ memory[i + 1].role = "tool"
          /\ memory[i + 1].content = "error: tool raised"

\* C12: on every exit path of ToolCallAgent.run() (return, max-steps exit, a
\* fault of a step, rejection of the call) the cleanup hook of every registered
\* tool that has one has been invoked exactly once per run() call that was left,
\* whichever hooks raised; a tool without a hook is never cleaned up.
ExitedRuns ==
    run_log.rejects + run_log.runs - (IF apc \in {"step", "act"} THEN 1 ELSE 0)
C12_CleanupOnEveryExit ==
    \A t \in RegisteredTools :
        cleanups[t] = IF t \in HookedTools THEN ExitedRuns ELSE 0
C12_Witness ==
    /\ apc = "raised" /\ run_log.fault
    /\ run_log.runs = 2 /\ run_log.rejects = 1
    /\ \A t \in HookedTools : cleanups[t] = 3

\* C13: when some node of the definition lists a dependency id that names no
\* node, constructing the executor fails before anything is executed: no unit
\* is created for any node, no node result is recorded, and the context state
\* never leaves PENDING.
C13_InvalidGraphRejected ==
    (\E n \in Nodes : \E dep \in definition.deps[n] : dep \notin Nodes) =>
        /\ wpc \in {"new", "invalid"}
        /\ ctx_state = "PENDING"
        /\ \A n \in Nodes : ntask[n] = NoTask /\ node_results[n] = Absent
        /\ \A g \in Groups : gtask[g] = "none"
        /\ execution_levels = <<>>
C13_Witness ==
    /\ wpc = "invalid"
    /\ "X" \in definition.deps["B"]
    /\ ctx_state = "PENDING"

\* C14: in every interleaving, a node whose task exists (scheduled, running or
\* done) belongs to a level all of whose earlier levels have settled: each of
\* their nodes has returned, raised or been filtered out by its condition, and
\* each of their groups is done; in particular none of its dependencies is
\* still scheduled or running.
Started(n) == ntask[n].st \in {"scheduled", "running", "returned", "raised"}
Over(n) == ntask[n].st \in {"returned", "raised", "filtered"}
C14_StrictLevelOrdering ==
    \A n \in Nodes : Started(n) =>
        /\ \E k \in 1..Len(execution_levels) : InLevel(n, k) /\ k <= level_idx
        /\ \A k \in 1..Len(execution_levels) : InLevel(n, k) =>
              \A j \in 1..(k - 1) : \A m \in LevelNodes(j) :
                  /\ Over(m)
                  /\ definition.group[m] # None
                        => (level_idx > j \/ gtask[definition.group[m]] = "done")
        /\ \A dep \in definition.deps[n] : Over(dep)
C14_Witness ==
    /\ level_idx = 3
    /\ ntask["C"].st = "running"
    /\ ntask["B"].st = "raised"
    /\ ntask["A"].st = "returned"
    /\ definition.deps["C"] = {"A", "B"}

\* C18: once the task of a parallel group is done, every member of the group that
\* was run has settled, whether or not a sibling failed: a member that returned
\* has its own result in the result map under its id, and a member that failed
\* has no entry.
GroupOver(n, k) ==
    k < level_idx \/ (k = level_idx /\ gtask[definition.group[n]] = "done")
C18_GroupFailsSoft ==
    \A k \in 1..Len(execution_levels) : \A n \in LevelNodes(k) :
        (definition.group[n] # None /\ GroupOver(n, k)) =>
            /\ Over(n)
            /\ ntask[n].st = "returned" =>
                  (node_results[n] = ntask[n].value /\ node_results[n] # Absent)
            /\ ntask[n].st \in {"raised", "filtered"} => node_results[n] = Absent
C18_Witness ==
    /\ gtask["g"] = "done" /\ level_idx = 1
    /\ definition.group["A"] = "g" /\ definition.group["B"] = "g"
    /\ ntask["A"].st = "raised" /\ node_results["A"] = Absent
    /\ ntask["B"].st = "returned" /\ node_results["B"] = Result("B", 1)

\* C15 as stated: once cancel() or pause() has taken effect while the nodes of
\* level k are running, execute() starts no later level, every node of level k
\* has settled when execute() returns, and it returns with the state CANCELLED
\* or PAUSED.
C15_HaltStopsLaterLevels ==
    [][ (wpc = "gather" /\ exec_log.halted > 0) =>
          /\ level_idx' = level_idx
          /\ wpc' = "returned" =>
                /\ ctx_state' \in {"PAUSED", "CANCELLED"}
                /\ \A n \in LevelNodes(level_idx) :
                      ntask'[n].st \in {"returned", "raised", "filtered"} ]_vars
\* C15 amended: the same, provided no resume() has taken effect since that
\* cancel() or pause(); a pause that is resumed before level k has settled
\* stops nothing.
C15_UnresumedHaltStopsLaterLevels ==
    [][ (wpc = "gather" /\ exec_log.halted > 0 /\ ~exec_log.resumed) =>
          /\ level_idx' = level_idx
          /\ ctx_state' \in {"PAUSED", "CANCELLED"} \/ exec_log'.resumed
          /\ wpc' = "returned" =>
                /\ ctx_state' \in {"PAUSED", "CANCELLED"}
                /\ \A n \in LevelNodes(level_idx) :
                      ntask'[n].st \in {"returned", "raised", "filtered"} ]_vars
C15_Witness ==
    /\ wpc = "returned" /\ ctx_state = "PAUSED"
    /\ exec_log.halted = 1 /\ ~exec_log.resumed /\ exec_log.reruns = 0
    /\ Len(execution_levels) = 3 /\ level_idx = 1
    /\ ntask["A"].st = "returned" /\ ntask["A"].attempts = 2
    /\ ntask["B"].st = "none" /\ ntask["C"].st = "none"

\* C16: pause() returns true and sets PAUSED exactly from RUNNING, resume()
\* returns true and sets RUNNING exactly from PAUSED, cancel() returns true and
\* sets CANCELLED exactly from RUNNING or PAUSED; a call that returns false
\* leaves the context state as it was.
C16_ControlsGuarded ==
    [][ ctl_log' # ctl_log =>
          LET op == ctl_log'.op
              ret == ctl_log'.ret
          IN /\ ctl_log'.before = ctx_state
             /\ op \in {"pause", "resume", "cancel"}
             /\ op = "pause" => ret = (ctx_state = "RUNNING")
             /\ op = "resume" => ret = (ctx_state = "PAUSED")
             /\ op = "cancel" => ret = (ctx_state \in {"RUNNING", "PAUSED"})
             /\ ctx_state' = IF ~ret THEN ctx_state
                             ELSE CASE op = "pause" -> "PAUSED"
                                    [] op = "resume" -> "RUNNING"
                                    [] op = "cancel" -> "CANCELLED" ]_vars
C16_Witness ==
    /\ ctl_log = [op |-> "cancel", ret |-> TRUE, before |-> "PAUSED"]
    /\ ctx_state = "CANCELLED"
    /\ wpc = "gather"

\* C17: over any sequence of execute(), pause(), resume() and cancel() on one
\* executor the context state changes only along PENDING -> RUNNING,
\* RUNNING -> PAUSED, PAUSED -> RUNNING, RUNNING -> COMPLETED, FAILED or
\* CANCELLED, and PAUSED -> CANCELLED (an execute() without levels passes
\* RUNNING within the call); COMPLETED, FAILED and CANCELLED are final.
AllowedTransitions ==
    { <<"PENDING", "RUNNING">>, <<"RUNNING", "PAUSED">>, <<"PAUSED", "RUNNING">>,
      <<"RUNNING", "COMPLETED">>, <<"RUNNING", "FAILED">>,
      <<"RUNNING", "CANCELLED">>, <<"PAUSED", "CANCELLED">> }
C17_StateMachine ==
    [][ ctx_state' # ctx_state =>
          \/ <<ctx_state, ctx_state'>> \in AllowedTransitions
          \/ /\ ctx_state = "PENDING" /\ ctx_state' = "COMPLETED"
             /\ execution_levels' = <<>> ]_vars

\* C19: with duplicate_threshold = 2, when a non-empty assistant content is the
\* latest message for the k-th time, is_stuck() is false for k = 1 and k = 2 and
\* true for k = 3 and every later k.
Occurrence(mem) ==
    Cardinality({i \in 1..Len(mem) :
                    /\ mem[i].role = "assistant"
                    /\ mem[i].content = mem[Len(mem)].content})
C19_StuckFromThirdOccurrence ==
    (/\ memory # <<>>
     /\ memory[Len(memory)].role = "assistant"
     /\ memory[Len(memory)].content # "") =>
        /\ Occurrence(memory) \in {1, 2} => ~stuck
        /\ Occurrence(memory) >= 3 => stuck
C19_Witness ==
    /\ stuck
    /\ Len(memory) = 4
    /\ memory[4] = Message("assistant", "x")
    /\ memory[3] = Message("user", "x")
    /\ Occurrence(memory) = 3

C21_InputCarriesDependencyResults ==
    \A n \in Nodes : ntask[n].attempts > 0 =>
        /\ \A key \in GlobalKeys : ntask[n].input[key] = GlobalValue
        /\ \A dep \in definition.deps[n] :
              (ntask[dep].st = "returned" /\ ntask[dep].value.kind = "result")
                  => ntask[n].input[FromKey(dep)] = ntask[dep].value

\* C22: when the invocation of a tool of the special-tool set has returned, the
\* unit's state is FINISHED: the remaining commands of the step are processed
\* in that state, and when the step is over run() starts no further step and
\* returns.
ToolReturned(msg) == msg.content \in {"observed result", "observed error result"}
C22_SpecialToolFinishes ==
    [][ apc = "act" =>
          /\ state = "FINISHED" => apc' \in {"act", "returned"}
          /\ (/\ memory' # memory
              /\ tool_calls[call_idx].name \in SpecialToolNames
              /\ ToolReturned(memory'[Len(memory')])) =>
                 IF call_idx < Len(tool_calls)
                 THEN state' = "FINISHED" /\ apc' = "act"
                 ELSE /\ apc' = "returned"
                      /\ run_log'.finished
                      /\ current_step' \in {current_step, 0} ]_vars
C22_Witness ==
    /\ apc = "returned" /\ state = "FINISHED" /\ run_log.finished
    /\ current_step = 1 /\ max_steps = 2
    /\ memory[Len(memory)].role = "tool"
    /\ memory[Len(memory)].name = "terminate"
    /\ memory[Len(memory)].content = "observed result"

\* C23: when the backend has answered, think() returns true exactly when the
\* response contains at least one tool call, or the tool-choice mode is
\* required, or the response has non-empty free text and no tool calls - in
\* each of the modes auto, required and none.
C23_ThinkReturnsAsStated ==
    step_log.ask = "response" =>
        (step_log.think = "true" <=>
            \/ tool_calls # <<>>
            \/ tool_choices = "required"
            \/ (step_log.content # "" /\ tool_calls = <<>>))

\* C23 (amended): in the modes auto and required think() returns true exactly
\* when the response has a tool call, or the mode is required, or it has
\* non-empty free text; in the mode none it returns true exactly when the
\* response has non-empty free text, whatever tool calls it carries.
C23_ThinkReturnsByMode ==
    step_log.ask = "response" =>
        (step_log.think = "true" <=>
            IF tool_choices = "none"
            THEN step_log.content # ""
            ELSE \/ tool_calls # <<>>
                 \/ tool_choices = "required"
                 \/ step_log.content # "")
C23_Witness ==
    /\ step_log.ask = "response"
    /\ tool_choices = "none"
    /\ tool_calls # <<>>
    /\ step_log.content = ""
    /\ step_log.think = "false"
    /\ step_log.ret = <<ThinkingComplete>>

\* C24: when the backend call of think() fails with the token-limit signal,
\* think() appends an assistant message, sets the state to FINISHED and returns
\* false without raising, and run() returns without starting another step; any
\* other failure of the backend call is raised out of think(), the step and
\* run().
C24_TokenLimitFinishes ==
    [][ (apc = "step" /\ memory' # memory) =>
          /\ step_log'.ask = "token_limit" =>
                /\ memory'[Len(memory')] =
                       PlainMessage("assistant", "token limit reached")
                /\ Len(memory') <= Len(memory) + 2
                /\ step_log'.think = "false"
                /\ run_log'.finished /\ ~run_log'.fault
                /\ apc' = "returned"
                /\ state' = IF current_step >= max_steps THEN "IDLE" ELSE "FINISHED"
          /\ step_log'.ask \in {"fault", "value_error"} =>
                /\ step_log'.think = "raise"
                /\ apc' = "raised"
                /\ run_log'.fault /\ ~run_log'.finished
                /\ \A i \in 1..Len(memory') : memory'[i].role # "assistant"
                                              \/ i <= Len(memory) ]_vars
C24_Witness ==
    /\ step_log.ask = "token_limit"
    /\ step_log.think = "false"
    /\ apc = "returned" /\ state = "FINISHED" /\ run_log.finished
    /\ current_step = 1 /\ max_steps = 2
    /\ memory[Len(memory)] = PlainMessage("assistant", "token limit reached")

\* C25: for a step with tool calls c1..cn, act() appends to memory exactly n
\* tool-role messages, in the order c1..cn, the i-th carrying the tool-call id
\* and the tool name of ci, and returns the n observations joined by a blank
\* line in the same order.
ToolMessagesAt(mem) == {i \in 1..Len(mem) : mem[i].role = "tool"}
C25_ActAppendsInOrder ==
    (step_log.think = "true" /\ tool_calls # <<>> /\ apc \in {"act", "returned"}) =>
        LET n == Len(tool_calls)
            done == IF apc = "act" THEN call_idx - 1 ELSE n
            base == Len(memory) - done
        IN /\ base >= 1
           /\ ToolMessagesAt(memory) = (base + 1)..Len(memory)
           /\ \A i \in 1..done :
                 /\ memory[base + i].tool_call_id = tool_calls[i].id
                 /\ memory[base + i].name = tool_calls[i].name
                 /\ memory[base + i].content = step_out[i]
           /\ apc = "returned" =>
                 /\ Len(step_log.ret) = 2 * n - 1
                 /\ \A i \in 1..n : step_log.ret[2 * i - 1] = memory[base + i].content
                 /\ \A i \in 1..(n - 1) : step_log.ret[2 * i] = "\n\n"
C25_Witness ==
    /\ apc = "returned"
    /\ step_log.think = "true"
    /\ Len(tool_calls) = 2
    /\ tool_calls[1].name = "does_not_exist" /\ tool_calls[2].name = "work"
    /\ step_log.ret = <<"error: unknown tool", "\n\n", "observed result">>
    /\ memory[Len(memory)].tool_call_id = 2
    /\ memory[Len(memory) - 1].tool_call_id = 1

\* C26: is_stuck() returns true if and only if the latest message in memory is
\* an assistant message with non-empty content and at least duplicate_threshold
\* earlier assistant messages have the same content; a latest message of
\* another role (user or tool) never makes the unit stuck.
C26_StuckOnlyOnAssistantRepeat ==
    stuck <=>
        /\ memory # <<>>
        /\ memory[Len(memory)].role = "assistant"
        /\ memory[Len(memory)].content # ""
        /\ Cardinality({i \in 1..(Len(memory) - 1) :
                           /\ memory[i].role = "assistant"
                           /\ memory[i].content = memory[Len(memory)].content})
               >= DuplicateThreshold

\* C27: each time stuck detection is positive after a step, the fixed directive
\* is prepended once more to the next-step prompt, so k positive detections
\* leave k copies in front of the original prompt; the run is not aborted: the
\* state stays RUNNING and the loop goes on until FINISHED or max_steps.
C27_StuckPrependsDirective ==
    [][ (apc = "step" /\ run_log'.steps # run_log.steps /\ apc' # "raised") =>
          /\ next_step_prompt' = IF is_stuck(memory')
                                 THEN <<StuckPrompt>> \o next_step_prompt
                                 ELSE next_step_prompt
          /\ \E k \in 0..Len(next_step_prompt') - 1 :
                next_step_prompt' = [i \in 1..k |-> StuckPrompt] \o <<"next">>
          /\ is_stuck(memory') =>
                /\ ~run_log'.fault
                /\ (current_step < max_steps /\ ~run_log'.finished) =>
                      /\ apc' = "step"
                      /\ state' = "RUNNING"
                      /\ current_step' = current_step + 1
                /\ apc' # "step" => (current_step >= max_steps \/ run_log'.finished)
      ]_vars
C27_Witness ==
    /\ next_step_prompt = <<StuckPrompt, StuckPrompt, "next">>
    /\ stuck
    /\ apc = "step" /\ state = "RUNNING"
    /\ ~run_log.fault

\* C28: a node run that exceeds the node's timeout counts as a failed attempt
\* like any other fault: it is retried while retries remain, and when it occurs
\* on the last attempt the node fails.
C28_TimeoutIsFailedAttempt ==
    [][ \A n \in Nodes :
          (/\ ntask[n].st = "running"
           /\ ntask'[n] # ntask[n]
           /\ ntask'[n].ended \in {"late", "fault"}) =>
              IF ntask[n].attempts <= definition.retry[n]
              THEN /\ ntask'[n].st = "running"
                   /\ ntask'[n].attempts = ntask[n].attempts + 1
              ELSE /\ ntask'[n].st = "raised"
                   /\ ntask'[n].attempts = ntask[n].attempts
                   /\ ntask'[n].value = Absent ]_vars
C28_Witness ==
    \E n \in Nodes :
        /\ definition.timeout[n] # 0 /\ definition.retry[n] = 1
        /\ ntask[n].st = "raised" /\ ntask[n].ended = "late"
        /\ ntask[n].attempts = 2

\* C29: every attempt of a node (the first one and each retry) runs on a newly
\* created execution unit: the number of units created for a node equals its
\* number of attempts, and no unit is run in more than one attempt.
C29_UnitPerAttempt ==
    \A n \in Nodes :
        /\ ntask[n].units = ntask[n].attempts
        /\ Len(ntask[n].ran) = ntask[n].attempts
        /\ \A i, j \in 1..Len(ntask[n].ran) :
              ntask[n].ran[i] = ntask[n].ran[j] => i = j

\* C29 (amended): every attempt whose unit could be created runs on the unit
\* created in that attempt, and no unit is run in more than one attempt; for a
\* node whose agent type is registered the number of units created equals the
\* number of attempts, for a node whose agent type is not registered every
\* attempt fails before a unit exists and no unit is created or run.
C29_UnitPerCreatedAttempt ==
    \A n \in Nodes :
        /\ Len(ntask[n].ran) = ntask[n].units
        /\ \A i \in 1..Len(ntask[n].ran) : ntask[n].ran[i] = i
        /\ IF definition.agent_type[n] \in AgentRegistry
           THEN ntask[n].units = ntask[n].attempts
           ELSE /\ ntask[n].units = 0
                /\ ntask[n].attempts \in {0, definition.retry[n] + 1}
                /\ ntask[n].st \in {"none", "scheduled", "raised"}
C29_Witness ==
    /\ ntask["A"].st = "raised" /\ ntask["A"].attempts = 3
    /\ ntask["A"].ran = <<1, 2, 3>>
    /\ definition.agent_type["C"] = "unregistered"
    /\ ntask["C"].st = "raised" /\ ntask["C"].attempts = 2 /\ ntask["C"].units = 0

\* C30: when act() is entered with no tool calls, in the mode required it raises
\* and appends nothing to memory; otherwise it returns the content of the last
\* message in memory, or the fixed placeholder when that content is empty, and
\* appends nothing to memory.
C30_ActWithoutToolCalls ==
    [][ (/\ step_log = NoStep /\ step_log' # NoStep
         /\ tool_calls' = <<>>
         /\ step_log'.think = "true" \/ step_log'.ask = "direct") =>
          /\ ToolMessagesAt(memory') = {}
          /\ IF step_log'.ask = "direct"
             THEN memory' = memory
             ELSE /\ Len(memory') = Len(memory) + 2
                  /\ memory'[Len(memory')] =
                         PlainMessage("assistant", step_log'.content)
          /\ IF tool_choices = "required"
             THEN apc' \in {"raised", "act_raised"} /\ step_log'.ret = <<>>
             ELSE memory' # <<>> =>
                    /\ apc' \in {"returned", "acted"}
                    /\ step_log'.ret =
                         <<IF memory'[Len(memory')].content # ""
                           THEN memory'[Len(memory')].content
                           ELSE "no content or command">> ]_vars
C30_Witness ==
    /\ step_log.ask = "direct"
    /\ tool_choices = "auto"
    /\ tool_calls = <<>>
    /\ memory # <<>>
    /\ memory[Len(memory)].content = ""
    /\ step_log.ret = <<Placeholder>>
    /\ apc = "acted"

\* C31: after construction of a ToolCollection and after any sequence of
\* add_tool / add_tools calls, no two tools of the collection share a name and
\* the name map contains exactly the collection's tools.
C31_NamesUnique ==
    /\ \A i, j \in 1..Len(tools) : tools[i].name = tools[j].name => i = j
    /\ \A i \in 1..Len(tools) : tool_map[tools[i].name] = tools[i]
    /\ \A name \in ToolNames :
          tool_map[name] # NoTool => \E i \in 1..Len(tools) : tools[i] = tool_map[name]

\* C32: when pause() is in effect at a level boundary, execute() returns with
\* the state PAUSED and the end time stamped; a later resume() sets the state
\* back to RUNNING, but (unless execute() is called anew) no remaining level is
\* ever executed and the state never becomes COMPLETED.
C32_ResumeAfterReturnRunsNothing ==
    [][ /\ (wpc = "gather" /\ ctx_state = "PAUSED") => level_idx' = level_idx
        /\ (wpc = "gather" /\ wpc' = "returned" /\ ctx_state = "PAUSED") =>
              ctx_state' = "PAUSED" /\ end_time' = TRUE
        /\ (/\ wpc = "returned"
            /\ ctx_state \in {"PAUSED", "RUNNING"}
            /\ exec_log'.reruns = exec_log.reruns) =>
              /\ wpc' = "returned"
              /\ ntask' = ntask /\ gtask' = gtask /\ level_idx' = level_idx
              /\ node_results' = node_results
              /\ ctx_state' \in {"PAUSED", "RUNNING", "CANCELLED"}
              /\ (ctl_log' # ctl_log /\ ctl_log'.op = "resume" /\ ctx_state = "PAUSED")
                    => ctx_state' = "RUNNING" ]_vars
C32_Witness ==
    /\ wpc = "returned" /\ ctx_state = "RUNNING" /\ end_time = TRUE
    /\ ctl_log = [op |-> "resume", ret |-> TRUE, before |-> "PAUSED"]
    /\ exec_log.reruns = 0
    /\ Len(execution_levels) = 3 /\ level_idx = 1
    /\ ntask["B"].st = "none" /\ ntask["C"].st = "none"

\* C33: the step counter is reset to 0 only on the max-steps exit: when a step
\* raises at step k < max_steps, run() exits with the state restored to IDLE
\* and current_step still k, so a later run() on the unit is accepted and
\* executes at most max_steps - k steps.
C33_CounterKeptOnFault ==
    [][ /\ (apc = "step" /\ apc' = "raised") =>
              /\ state' = "IDLE" /\ ~RunRejects(state')
              /\ current_step' = current_step
        /\ current_step' # current_step =>
              \/ current_step' = current_step + 1 /\ apc' = "step"
              \/ /\ current_step' = 0 /\ apc' = "returned"
                 /\ LastEntry(results') = MaxStepsNotice
        /\ run_log'.runs # run_log.runs => run_log'.start_step = current_step
        /\ run_log'.steps <= max_steps - run_log'.start_step ]_vars
C33_Witness ==
    /\ run_log.runs = 2 /\ run_log.start_step = 1 /\ max_steps = 3
    /\ run_log.steps = 2
    /\ apc = "returned" /\ current_step = 0 /\ state = "IDLE"

\* C34: when a special tool has set the state to FINISHED in the middle of a
\* step with several tool calls, the remaining tool calls of that step are
\* still executed and their tool messages appended in order; only the start of
\* the next step is suppressed.
C34_FinishedStepRunsToEnd ==
    [][ (/\ apc = "act"
         /\ state = "FINISHED" \/ tool_calls[call_idx].name \in SpecialToolNames
         /\ run_log'.rejects = run_log.rejects) =>
          LET command == tool_calls[call_idx]
              msg == memory'[Len(memory')]
          IN /\ Len(memory') = Len(memory) + 1
             /\ SubSeq(memory', 1, Len(memory)) = memory
             /\ msg.role = "tool"
             /\ msg.tool_call_id = command.id /\ msg.name = command.name
             /\ IF call_idx < Len(tool_calls)
                THEN /\ apc' = "act" /\ call_idx' = call_idx + 1
                     /\ state = "FINISHED" => state' = "FINISHED"
                     /\ ToolReturned(msg) => state' = "FINISHED"
                ELSE /\ (state = "FINISHED" \/ ToolReturned(msg)) => apc' = "returned"
                     /\ Len(step_out') = Len(tool_calls) ]_vars
C34_Witness ==
    /\ apc = "returned" /\ run_log.finished
    /\ current_step = 1 /\ max_steps = 2 /\ state = "FINISHED"
    /\ Len(tool_calls) = 2
    /\ tool_calls[1].name = "terminate" /\ tool_calls[2].name = "work"
    /\ memory[Len(memory) - 1].name = "terminate"
    /\ memory[Len(memory)].name = "work" /\ memory[Len(memory)].tool_call_id = 2
    /\ step_out = <<"observed result", "observed result">>

\* C35: once a run() of a unit has ended with state FINISHED, the state stays
\* FINISHED for ever and every later run() on that unit is rejected without
\* executing a step.
C35_FinishedUnitNeverRuns ==
    [][ (apc = "returned" /\ state = "FINISHED") =>
          /\ state' = "FINISHED" /\ apc' = "returned"
          /\ run_log'.runs = run_log.runs /\ run_log'.steps = run_log.steps
          /\ current_step' = current_step /\ memory' = memory
          /\ results' = results
          /\ run_log' # run_log => run_log'.rejects = run_log.rejects + 1 ]_vars
C35_Witness ==
    /\ apc = "returned" /\ state = "FINISHED"
    /\ run_log.finished /\ run_log.runs = 1 /\ run_log.rejects = 1
    /\ run_log.steps = 2 /\ current_step = 2

\* C36: in a parallel group the result stored in the result map under a node
\* id is the result returned by that node's own task, whatever the order in
\* which the members finish; each node id is written at most once per
\* execution and only after the node's task has settled.
C36_GroupResultsBelongToNode ==
    [][ \A n \in Nodes :
          node_results'[n] # node_results[n] =>
              /\ node_results[n] = Absent
              /\ definition.group[n] # None
              /\ ntask[n].st = "returned"
              /\ node_results'[n] = ntask[n].value
              /\ node_results'[n].kind = "result" =>
                    /\ node_results'[n].node = n
                    /\ node_results'[n].attempt = ntask[n].attempts ]_vars
C36_Witness ==
    /\ definition.group["A"] = "g" /\ definition.group["B"] = "g"
    /\ node_results["A"] = Result("A", 2)
    /\ node_results["B"] = Result("B", 1)
    /\ gtask["g"] = "done" /\ level_idx = 1

\* a step that ends a call of execute(): a first call or a repeated one
ExecuteEnds(a, b, reran) ==
    (b \in {"returned", "raised"} /\ (a \notin {"returned", "raised"} \/ reran))
\* C37: whenever execute() returns or raises, the end time is stamped and the
\* context state is COMPLETED, PAUSED, CANCELLED or FAILED, never PENDING or
\* RUNNING, and it raises only with state FAILED
C37_EndsStampedAndSettled ==
    [][ExecuteEnds(wpc, wpc', exec_log'.reruns # exec_log.reruns) =>
          /\ end_time' = TRUE
          /\ ctx_state' \in {"COMPLETED", "PAUSED", "CANCELLED", "FAILED"}
          /\ (wpc' = "raised" => ctx_state' = "FAILED")]_vars
\* execute() has returned after a pause that was never resumed, leaving PAUSED
C37_Witness ==
    /\ wpc = "returned"
    /\ ctx_state = "PAUSED"
    /\ end_time = TRUE
    /\ level_idx < Len(execution_levels)

\* C38: a unit that starts with step counter 0 keeps 0 <= current_step <=
\* max_steps in every state; the counter moves only by one per step started or
\* back to 0 at the max-steps reset, so the steps executed between two resets,
\* summed over runs that end by a fault and the runs that follow them, never
\* exceed max_steps
C38_CounterBounded ==
    /\ [](/\ current_step \in 0..max_steps
          /\ run_log.start_step + run_log.steps <= max_steps)
    /\ [][/\ current_step' # current_step =>
               \/ current_step' = current_step + 1 /\ apc' = "step"
               \/ current_step' = 0 /\ current_step = max_steps /\ apc' = "returned"
          /\ run_log'.steps = run_log.steps + 1 =>
               /\ apc = "step"
               /\ run_log.start_step + run_log'.steps = current_step]_vars
\* a run that began with the counter left by a faulted run has used up the
\* remaining steps and reset the counter
C38_Witness ==
    /\ apc = "returned"
    /\ run_log.runs = 2
    /\ run_log.start_step > 0
    /\ run_log.start_step + run_log.steps = max_steps
    /\ run_log.steps > 0
    /\ current_step = 0

\* every stored plan has one status and one note per step, and only the four
\* statuses
PlanWellFormed(plan) ==
    /\ Len(plan.step_statuses) = Len(plan.steps)
    /\ Len(plan.step_notes) = Len(plan.steps)
    /\ \A i \in 1..Len(plan.step_statuses) : plan.step_statuses[i] \in StepStatuses
\* an update keeps the status and note of the steps whose text stays at its
\* index and resets all others
UpdateKeepsInPlace(old, new) ==
    \A i \in 1..Len(new.steps) :
        IF i <= Len(old.steps) /\ new.steps[i] = old.steps[i]
        THEN /\ new.step_statuses[i] = old.step_statuses[i]
             /\ new.step_notes[i] = old.step_notes[i]
        ELSE /\ new.step_statuses[i] = "not_started"
             /\ new.step_notes[i] = ""
\* C40: after any sequence of PlanningTool commands, accepted or rejected,
\* every stored plan has step_statuses and step_notes as long as steps, every
\* status is one of the four values, and update keeps the status and note of a
\* step only when the same step text stays at the same index
C40_PlansWellFormed ==
    /\ [](\A id \in DOMAIN plans : PlanWellFormed(plans[id]))
    /\ [][plan_log'.command = "update" =>
             \A id \in DOMAIN plans' :
                 /\ id \in DOMAIN plans
                 /\ UpdateKeepsInPlace(plans[id], plans'[id])]_vars
\* an accepted update has replaced a two-step plan whose first step was
\* completed with a note: the first text stayed, the second is new
C40_Witness ==
    /\ plan_log = [command |-> "update", ok |-> TRUE]
    /\ "p" \in DOMAIN plans
    /\ plans["p"].steps = <<"s", "t">>
    /\ plans["p"].step_statuses = <<"completed", "not_started">>
    /\ plans["p"].step_notes = <<"n", "">>

\* C39: PlanningFlow.execute() terminates for every finite plan: each pass of
\* the loop marks the selected step completed or ends the loop, so no step is
\* selected and executed indefinitely, also when the executor's run() raises
\* on every attempt for that step
C39_ExecuteTerminates == <>(fpc = "returned")

====
